---- MODULE Spec2Model ----
(***************************************************************************)
(* Bravais-lattice recognition by Niggli reduction                         *)
(* (ase/geometry/niggli_classes.py): the lattice sampler lattice_loop, the *)
(* operator discovery find_niggli_ops, and the identification              *)
(* check_type / identify_lattice over the static niggli_op_table.          *)
(*                                                                         *)
(* Representation.  A cell (three row vectors) is represented by four      *)
(* times its Gram matrix, a symmetric 3x3 integer matrix stored row-major  *)
(* as a 9-tuple like the operators of niggli_op_table.  Lengths enter as   *)
(* squared lengths and an angle alpha as k = 4*cos(alpha), so that every   *)
(* conventional cell of the eleven non-excluded families has an integer    *)
(* matrix and the arithmetic of the code is exact.  Two cells have the     *)
(* same cell parameters (lengths, angles) iff their matrices are equal.    *)
(* The program is single-threaded: pc names the function that is running.  *)
(***************************************************************************)
EXTENDS Integers, Sequences, FiniteSets, TLC

VARIABLES pc, caller, cell, op, rcell, inlat, fi, results, tried, ret,
          latcls, idx, yielded, niggli_ops, outcome,
          op_integer_err, inv_op_integer_err, prev, seen, table,
          gfi, all_niggli_ops, new_table, genout,
          exc_pc, exc_self, exc_raised, key_call,
          initialize, lrtddft_params, tddft, built, td_calls, td_out,
          do_adjust_cell, rotations, lattice, adj_in, symmetrized_cell,
          cell_arg, disp_files, comb_file, comb_keys, vib_last,
          next_id, sessions, default_columns, sess_call

\* cell, op, rcell: the locals of the running function (and of the
\* niggli_reduce it calls); caller: the function niggli_reduce returns to.
redVars == <<cell, op, rcell>>
\* identify_lattice: the lattice the input cell was built from (test()),
\* the position of the family loop, the last check_type result, the
\* families passed to check_type so far, and the outcome of the call.
idVars == <<inlat, fi, results, tried, ret>>
\* find_niggli_ops: the class, the number of parameter tuples consumed,
\* the lattices lattice_loop yielded, the tally and the outcome of the call.
loopVars == <<latcls, idx, yielded, niggli_ops, outcome>>
\* find_niggli_ops: the two rounding errors of the last sample.  prev: the
\* class and the lattices of the last lattice_loop that ran to its end.
\* seen: the results of the identify_lattice calls made so far, by cell.
\* table: the module-level dictionary niggli_op_table.
\* otherVars: what the functions of the module other than the one an action
\* belongs to never write.
\* generate_niggli_op_table and find_all_niggli_ops: the position of the
\* family loop, the tallies by family, the local table and the outcome.
genVars == <<gfi, all_niggli_ops, new_table, genout>>
\* groundstate_calculator.py: the position of the running constructor,
\* the attributes of the ExcitingGroundState under construction, the
\* exception that ended the constructor, and the last direct call of
\* check_key_present with its result.
excVars == <<exc_pc, exc_self, exc_raised, key_call>>
\* siesta_lrtddft.py: the attributes initialize, lrtddft_params and tddft
\* of the one siesta_lrtddft object ("unset" before its constructor; tddft: the serial number of the
\* tddft_iter object it refers to, 0 for None), the number of tddft_iter
\* objects built so far, the number of get_polarizability calls and the
\* outcome of the last one.
tdVars == <<initialize, lrtddft_params, tddft, built, td_calls, td_out>>
\* symmetrize.py: the attributes do_adjust_cell ("unset" before the
\* constructor) and rotations of the one FixSymmetry object, the cell of
\* its atoms, and for the last adjust_cell call the cell array as passed,
\* the local symmetrized_cell and the cell array as left.
symVars == <<do_adjust_cell, rotations, lattice, adj_in, symmetrized_cell,
             cell_arg>>
\* test_vib.py, the cache directory of the Vibrations object: the
\* individual displacement files with their content, whether the combined
\* file exists and the displacements it holds; vib_last: the last method
\* called, its outcome, and whether the combined file and any individual
\* file existed when it was called.
vibVars == <<disp_files, comb_file, comb_keys, vib_last>>
\* The variables of the other modules.
\* web.py: the class attributes Session.next_id and Session.sessions (the
\* registry, the sessions by id), the list the caller passes to update as
\* default_columns; sess_call: the last call, its arguments, the session
\* it returned or worked on as it was before and after the call.
webVars == <<next_id, sessions, default_columns, sess_call>>
extVars == <<genVars, excVars, tdVars, symVars, vibVars, webVars>>
otherVars == <<prev, seen, table, extVars>>
opsVars == <<loopVars, op_integer_err, inv_op_integer_err, otherVars>>
vars == <<pc, caller, cell, op, rcell, inlat, fi, results, tried, ret,
          latcls, idx, yielded, niggli_ops, outcome,
          op_integer_err, inv_op_integer_err, otherVars>>

\* Largest squared length of the sampling grid.
MaxLen == 4

----------------------------------------------------------------------------
\* 3x3 integer matrices, row-major 9-tuples.

Abs(x) == IF x < 0 THEN -x ELSE x

Sign(x) == IF x > 0 THEN 1 ELSE IF x < 0 THEN -1 ELSE 0

Identity == <<1, 0, 0, 0, 1, 0, 0, 0, 1>>

\* a @ b
MatMul(a, b) ==
    << a[1] * b[1] + a[2] * b[4] + a[3] * b[7],
       a[1] * b[2] + a[2] * b[5] + a[3] * b[8],
       a[1] * b[3] + a[2] * b[6] + a[3] * b[9],
       a[4] * b[1] + a[5] * b[4] + a[6] * b[7],
       a[4] * b[2] + a[5] * b[5] + a[6] * b[8],
       a[4] * b[3] + a[5] * b[6] + a[6] * b[9],
       a[7] * b[1] + a[8] * b[4] + a[9] * b[7],
       a[7] * b[2] + a[8] * b[5] + a[9] * b[8],
       a[7] * b[3] + a[8] * b[6] + a[9] * b[9] >>

\* a.T
Transpose(a) == <<a[1], a[4], a[7], a[2], a[5], a[8], a[3], a[6], a[9]>>

Det(m) ==
    m[1] * (m[5] * m[9] - m[6] * m[8])
      - m[2] * (m[4] * m[9] - m[6] * m[7])
      + m[3] * (m[4] * m[8] - m[5] * m[7])

\* The adjugate of m (the transposed cofactor matrix).
Adjugate(m) ==
    << m[5] * m[9] - m[6] * m[8], m[3] * m[8] - m[2] * m[9],
       m[2] * m[6] - m[3] * m[5],
       m[6] * m[7] - m[4] * m[9], m[1] * m[9] - m[3] * m[7],
       m[3] * m[4] - m[1] * m[6],
       m[4] * m[8] - m[5] * m[7], m[2] * m[7] - m[1] * m[8],
       m[1] * m[5] - m[2] * m[4] >>

\* np.linalg.inv(m), rounded to integers: adj(m) / det(m).  The quotient is
\* the exact inverse when det(m) is +1 or -1 and differs from it otherwise.
Inverse(m) ==
    LET adj == Adjugate(m)
        d == Det(m)
    IN  << adj[1] \div d, adj[2] \div d, adj[3] \div d,
           adj[4] \div d, adj[5] \div d, adj[6] \div d,
           adj[7] \div d, adj[8] \div d, adj[9] \div d >>

\* Cell(m @ c): the rows of c transformed by m; on Gram matrices m G m^T.
Apply(m, c) == MatMul(MatMul(m, c), Transpose(m))

\* The symmetric matrix with diagonal d and off-diagonal o = (g23, g13, g12).
Sym(d, o) == <<d[1], o[3], o[2], o[3], d[2], o[1], o[2], o[1], d[3]>>

\* cell.cellpar(): the three lengths and three angles, here the diagonal
\* and (g23, g13, g12) of the Gram matrix.
cellpar(c) == <<c[1], c[5], c[9], c[6], c[3], c[2]>>

\* np.abs(p - q).max() of two cellpar vectors.
MaxAbsDiff(p, q) ==
    LET d == {Abs(p[i] - q[i]) : i \in 1..6}
    IN  CHOOSE x \in d : \A y \in d : y <= x

----------------------------------------------------------------------------
\* The Bravais lattices (ase.geometry.bravais).

\* bravais_names, in the order the lattice classes are declared.
bravais_names ==
    << "CUB", "FCC", "BCC", "TET", "BCT", "ORC", "ORCF", "ORCI", "ORCC",
       "HEX", "RHL", "MCL", "MCLC", "TRI",
       "OBL", "HEX2D", "RECT", "CRECT", "SQR" >>

\* bravais_lattices[name].ndim
ndim(name) ==
    IF name \in {"OBL", "HEX2D", "RECT", "CRECT", "SQR"} THEN 2 ELSE 3

\* bravais_lattices[name].parameters
parameters(name) ==
    CASE name \in {"CUB", "FCC", "BCC"} -> <<"a">>
      [] name \in {"TET", "BCT", "HEX"} -> <<"a", "c">>
      [] name \in {"ORC", "ORCF", "ORCI", "ORCC"} -> <<"a", "b", "c">>
      [] name = "RHL" -> <<"a", "alpha">>
      [] name = "MCL" -> <<"a", "b", "c", "alpha">>
      [] name = "MCLC" -> <<"a", "b", "c", "alpha">>
      [] name = "TRI" -> <<"a", "b", "c", "alpha", "beta", "gamma">>
      [] OTHER -> <<"a">>

\* A lattice object: its class name and its parameters in the order of
\* parameters(name) (squared lengths; alpha as 4*cos(alpha)).  A lattice of
\* MCL, MCLC or TRI carries the cell parameters of its cell instead.
Lattice(name, par) == [name |-> name, par |-> par]

\* latcls(**kwargs) raises UnconventionalLattice unless this holds.
Conventional(name, p) ==
    CASE name \in {"ORC", "ORCF", "ORCI"} -> p[1] < p[2] /\ p[2] < p[3]
      [] name = "ORCC" -> p[1] < p[2]
      [] name = "RHL" -> 2 * p[2] > -4     \* alpha < 120 degrees
      [] OTHER -> TRUE

\* lat.tocell() of a lattice of class name with parameters p.
tocellOf(name, p) ==
    CASE name = "CUB" -> Sym(<<4 * p[1], 4 * p[1], 4 * p[1]>>, <<0, 0, 0>>)
      [] name = "FCC" ->
            Sym(<<2 * p[1], 2 * p[1], 2 * p[1]>>, <<p[1], p[1], p[1]>>)
      [] name = "BCC" ->
            Sym(<<3 * p[1], 3 * p[1], 3 * p[1]>>, <<-p[1], -p[1], -p[1]>>)
      [] name = "TET" -> Sym(<<4 * p[1], 4 * p[1], 4 * p[2]>>, <<0, 0, 0>>)
      [] name = "BCT" ->
            Sym(<<2 * p[1] + p[2], 2 * p[1] + p[2], 2 * p[1] + p[2]>>,
                <<-p[2], -p[2], p[2] - 2 * p[1]>>)
      [] name = "ORC" -> Sym(<<4 * p[1], 4 * p[2], 4 * p[3]>>, <<0, 0, 0>>)
      [] name = "ORCF" ->
            Sym(<<p[2] + p[3], p[1] + p[3], p[1] + p[2]>>,
                <<p[1], p[2], p[3]>>)
      [] name = "ORCI" ->
            Sym(<<p[1] + p[2] + p[3], p[1] + p[2] + p[3],
                  p[1] + p[2] + p[3]>>,
                <<p[1] - p[2] - p[3], p[2] - p[1] - p[3],
                  p[3] - p[1] - p[2]>>)
      [] name = "ORCC" ->
            Sym(<<p[1] + p[2], p[1] + p[2], 4 * p[3]>>,
                <<0, 0, p[1] - p[2]>>)
      [] name = "HEX" ->
            Sym(<<4 * p[1], 4 * p[1], 4 * p[2]>>, <<0, 0, -2 * p[1]>>)
      [] name = "RHL" ->
            Sym(<<4 * p[1], 4 * p[1], 4 * p[1]>>,
                <<p[1] * p[2], p[1] * p[2], p[1] * p[2]>>)
      [] OTHER -> Sym(<<p[1], p[2], p[3]>>, <<p[4], p[5], p[6]>>)

tocell(lat) == tocellOf(lat.name, lat.par)

----------------------------------------------------------------------------
\* Cell.niggli_reduce(): the Krivy-Gruber reduction.  g is the vector
\* (A, B, C, xi, eta, zeta) of the cell transformed by C.

NiggliG(C, G0) ==
    LET G == Apply(Transpose(C), G0)
    IN  <<G[1], G[5], G[9], 2 * G[6], 2 * G[3], 2 * G[2]>>

\* The sign normalisation of the angles (steps 3 and 4).
NiggliSigns(g) ==
    LET lmn == <<Sign(g[4]), Sign(g[5]), Sign(g[6])>>
        flip == << IF lmn[1] = 1 THEN -1 ELSE 1,
                   IF lmn[2] = 1 THEN -1 ELSE 1,
                   IF lmn[3] = 1 THEN -1 ELSE 1 >>
        zeros == {i \in 1..3 : lmn[i] = 0}
        r == CHOOSE i \in zeros : \A j \in zeros : j <= i
    IN  IF lmn[1] * lmn[2] * lmn[3] = 1 THEN lmn
        ELSE IF \A i \in 1..3 : lmn[i] = -1 THEN <<1, 1, 1>>
        ELSE IF flip[1] * flip[2] * flip[3] = -1
             THEN [flip EXCEPT ![r] = -1]
        ELSE flip

\* C * ijk[np.newaxis]: column j of C multiplied by ijk[j].
ScaleColumns(C, ijk) ==
    << C[1] * ijk[1], C[2] * ijk[2], C[3] * ijk[3],
       C[4] * ijk[1], C[5] * ijk[2], C[6] * ijk[3],
       C[7] * ijk[1], C[8] * ijk[2], C[9] * ijk[3] >>

----------------------------------------------------------------------------
\* get_bravais_lattice_from_reduced_form(candidate): the lattice whose
\* conventional cell has the cell parameters of the candidate.

\* The order in which the lattice classes are matched: the more symmetric
\* first, HEX and RHL before the orthorhombic classes.
check_order ==
    << "CUB", "FCC", "BCC", "TET", "BCT", "HEX", "RHL",
       "ORC", "ORCF", "ORCI", "ORCC" >>

\* The parameters a lattice of class name must have for its cell to be c
\* (four times the values where a division does not come out even).
SolvePar(name, c) ==
    LET d == <<c[1], c[5], c[9]>>
        o == <<c[6], c[3], c[2]>>
    IN  CASE name = "CUB" -> <<d[1]>>
          [] name = "FCC" -> <<2 * d[1]>>
          [] name = "BCC" -> <<(4 * d[1]) \div 3>>
          [] name \in {"TET", "HEX"} -> <<d[1], d[3]>>
          [] name = "BCT" -> <<2 * (d[1] + o[1]), -4 * o[1]>>
          [] name = "RHL" -> <<d[1], (16 * o[1]) \div d[1]>>
          [] name = "ORC" -> <<d[1], d[2], d[3]>>
          [] name = "ORCF" -> <<4 * o[1], 4 * o[2], 4 * o[3]>>
          [] name = "ORCI" ->
                <<-2 * (o[2] + o[3]), -2 * (o[1] + o[3]), -2 * (o[1] + o[2])>>
          [] name = "ORCC" -> <<2 * (d[1] + o[3]), 2 * (d[1] - o[3]), d[3]>>

MatchPar(name, c) ==
    LET q == SolvePar(name, c)
    IN  [i \in 1..Len(q) |-> q[i] \div 4]

\* Whether c is the cell of a lattice of class name: its parameters are
\* positive lengths, the class accepts them and tocell() gives back c.
Matches(name, c) ==
    LET q == SolvePar(name, c)
        p == MatchPar(name, c)
    IN  /\ \A i \in 1..Len(q) : q[i] % 4 = 0
        /\ \A i \in 1..Len(p) : (name = "RHL" /\ i = 2) \/ p[i] > 0
        /\ Conventional(name, p)
        /\ tocellOf(name, p) = c

\* MCL: a, b, c, alpha with b <= c and alpha < 90, cell
\* [[a,0,0],[0,b,0],[0,c cos(alpha),c sin(alpha)]].
MatchesMCL(c) == c[2] = 0 /\ c[3] = 0 /\ c[6] > 0 /\ c[5] <= c[9]

\* MCLC: cell [[a/2,b/2,0],[-a/2,b/2,0],[0,c cos(alpha),c sin(alpha)]].
MatchesMCLC(c) ==
    /\ c[1] = c[5] /\ c[3] = c[6] /\ c[6] > 0
    /\ Abs(c[2]) < c[1]
    /\ 2 * (c[1] + c[2]) <= c[9]

\* TRI(a, b, c, alpha, beta, gamma) raises UnconventionalLattice unless the
\* angles of the reciprocal cell are all obtuse or all acute with kgamma
\* the one closest to 90 degrees, or kgamma is 90 degrees and the other
\* two are both obtuse or both acute.  K is the reciprocal Gram matrix up
\* to a positive factor.
ConventionalTRI(c) ==
    LET K == Adjugate(c)
        ka == K[6]
        kb == K[3]
        kg == K[2]
    IN  IF kg = 0
        THEN (ka < 0 /\ kb < 0) \/ (ka > 0 /\ kb > 0)
        ELSE /\ \/ (ka < 0 /\ kb < 0 /\ kg < 0)
                \/ (ka > 0 /\ kb > 0 /\ kg > 0)
             /\ kg * kg * K[9] <= ka * ka * K[1]
             /\ kg * kg * K[9] <= kb * kb * K[5]

\* The result: a lattice, or the exception the call raises.
Raised(exc) == [name |-> exc, par |-> <<>>]

IsLattice(r) == r.name \notin {"UnconventionalLattice", "RuntimeError",
                                "AssertionError", "NameError"}

get_bravais_lattice_from_reduced_form(c) ==
    LET hits == {i \in 1..Len(check_order) : Matches(check_order[i], c)}
        first == CHOOSE i \in hits : \A j \in hits : i <= j
    IN  IF hits # {}
        THEN Lattice(check_order[first], MatchPar(check_order[first], c))
        ELSE IF MatchesMCL(c) THEN Lattice("MCL", cellpar(c))
        ELSE IF MatchesMCLC(c) THEN Lattice("MCLC", cellpar(c))
        ELSE IF ConventionalTRI(c) THEN Lattice("TRI", cellpar(c))
        ELSE Raised("UnconventionalLattice")

----------------------------------------------------------------------------
\* niggli_classes.py

\* A table whose operator doubles the first cell vector.
niggli_op_table_doubling ==
    [name \in {"BCC", "BCT", "CUB", "FCC", "HEX", "ORC", "ORCC", "ORCF",
               "ORCI", "RHL", "TET"} |-> << <<2, 0, 0, 0, 1, 0, 0, 0, 1>> >>]

niggli_op_table ==
    [name \in {"BCC", "BCT", "CUB", "FCC", "HEX", "ORC", "ORCC", "ORCF",
               "ORCI", "RHL", "TET"} |->
      CASE name = "BCC" -> << <<1, 0, 0, 0, 1, 0, 0, 0, 1>> >>
        [] name = "BCT" -> << <<1, 0, 0, 0, 1, 0, 0, 0, 1>>,
                              <<0, 1, 0, 0, 0, 1, 1, 0, 0>>,
                              <<0, 1, 0, 1, 0, 0, 1, 1, -1>>,
                              <<-1, 0, 1, 0, 1, 0, -1, 1, 0>>,
                              <<1, 1, 0, 1, 0, 0, 0, 0, -1>> >>
        [] name = "CUB" -> << <<1, 0, 0, 0, 1, 0, 0, 0, 1>> >>
        [] name = "FCC" -> << <<1, 0, 0, 0, 1, 0, 0, 0, 1>> >>
        [] name = "HEX" -> << <<1, 0, 0, 0, 1, 0, 0, 0, 1>>,
                              <<0, 1, 0, 0, 0, 1, 1, 0, 0>> >>
        [] name = "ORC" -> << <<1, 0, 0, 0, 1, 0, 0, 0, 1>> >>
        [] name = "ORCC" -> << <<1, 0, 0, 0, 1, 0, 0, 0, 1>>,
                               <<1, 0, -1, 1, 0, 0, 0, -1, 0>>,
                               <<-1, 1, 0, -1, 0, 0, 0, 0, 1>>,
                               <<0, 1, 0, 0, 0, 1, 1, 0, 0>>,
                               <<0, -1, 1, 0, -1, 0, 1, 0, 0>> >>
        [] name = "ORCF" -> << <<0, -1, 0, 0, 1, -1, 1, 0, 0>>,
                               <<-1, 0, 0, 1, 0, 1, 1, 1, 0>> >>
        [] name = "ORCI" -> << <<0, 0, -1, 0, -1, 0, -1, 0, 0>>,
                               <<0, 0, 1, -1, 0, 0, -1, -1, 0>>,
                               <<0, 1, 0, 1, 0, 0, 1, 1, -1>>,
                               <<0, -1, 0, 1, 0, -1, 1, -1, 0>> >>
        [] name = "RHL" -> << <<0, -1, 0, 1, 1, 1, -1, 0, 0>>,
                              <<1, 0, 0, 0, 1, 0, 0, 0, 1>>,
                              <<1, -1, 0, 1, 0, -1, 1, 0, 0>> >>
        [] name = "TET" -> << <<1, 0, 0, 0, 1, 0, 0, 0, 1>>,
                              <<0, 1, 0, 0, 0, 1, 1, 0, 0>> >>]

\* The cubic family is skipped as well.
ExcludedWithCUB == {"MCL", "MCLC", "TRI", "CUB"}

\* The families identify_lattice, find_all_niggli_ops and test skip.
ExcludedNames == {"MCL", "MCLC", "TRI"}

\* candidate = Cell(np.linalg.inv(op.T) @ rcell)
Candidate(m, rc) == Apply(Inverse(Transpose(m)), rc)

\* The outcome of get_bravais_lattice_from_reduced_form for each operator
\* of the family, in table order.
CheckOutcomes(rc, name) ==
    [i \in 1..Len(table[name]) |->
        get_bravais_lattice_from_reduced_form(Candidate(table[name][i], rc))]

\* Only the calls that raised are dropped.
KeptAnyLattice(r) == IsLattice(r)

\* Whether check_type appends the outcome to results: not when the call
\* raised (except ... continue) nor when lat.name is TRI, MCL or MCLC.
Kept(r) == IsLattice(r) /\ r.name \notin {"TRI", "MCL", "MCLC"}

\* The first operator whose candidate is not kept ends the loop.
check_type_breaks(rc, name) ==
    LET outs == CheckOutcomes(rc, name)
        bad == {i \in 1..Len(outs) : ~Kept(outs[i])}
    IN  IF bad = {} THEN outs
        ELSE SubSeq(outs, 1, (CHOOSE i \in bad : \A j \in bad : i <= j) - 1)

check_type(rc, name) == SelectSeq(CheckOutcomes(rc, name), Kept)

\* The search of the results leaves out the first of them.
ReturnIndexFromSecond(res) == IF Len(res) >= 2 THEN 2 ELSE 0

\* The first of the results is returned whatever its name.
ReturnIndexListOrder(res) == IF res = <<>> THEN 0 ELSE 1

\* for name in bravais_names: for lat in results: if lat.name == name:
\* the pair of indices at which the loops of identify_lattice return.
ReturnIndex(res) ==
    LET found == {i \in 1..Len(bravais_names) :
                     \E j \in 1..Len(res) : res[j].name = bravais_names[i]}
        i0 == CHOOSE i \in found : \A i2 \in found : i <= i2
        js == {j \in 1..Len(res) : res[j].name = bravais_names[i0]}
    IN  IF found = {} THEN 0
        ELSE CHOOSE j \in js : \A j2 \in js : j <= j2

----------------------------------------------------------------------------
\* lattice_loop(latcls, length_grid, angle_grid)

\* The grids, ascending as np.logspace and np.linspace produce them: squared
\* lengths 1..MaxLen, and angles from acute to obtuse as k = 4*cos(alpha).
length_grid == [i \in 1..MaxLen |-> i]

angle_grid == <<3, 2, 1, 0, -1, -2, -3>>

\* varname in 'abc' is a substring test.
InABC(varname) == varname \in {"", "a", "b", "c", "ab", "bc", "abc"}

\* Whether the first loop of lattice_loop finishes without ValueError.
GridsOK(cls) ==
    \A i \in 1..Len(parameters(cls)) :
        InABC(parameters(cls)[i]) \/ parameters(cls)[i] = "alpha"

param_grids(cls) ==
    [i \in 1..Len(parameters(cls)) |->
        IF InABC(parameters(cls)[i]) THEN length_grid ELSE angle_grid]

RECURSIVE ProductSize(_)
ProductSize(grids) ==
    IF grids = <<>> THEN 1 ELSE Len(Head(grids)) * ProductSize(Tail(grids))

\* The n-th tuple (n = 0, 1, ...) of itertools.product(*grids): the last
\* grid varies fastest.
RECURSIVE ProductAt(_, _)
ProductAt(grids, n) ==
    IF grids = <<>> THEN <<>>
    ELSE LET rest == ProductSize(Tail(grids))
         IN  <<Head(grids)[(n \div rest) + 1]>>
               \o ProductAt(Tail(grids), n % rest)

\* latpars of the n-th iteration of the second loop.
latpars(cls, n) == ProductAt(param_grids(cls), n)

----------------------------------------------------------------------------
\* find_niggli_ops(latcls, length_grid, angle_grid)

\* |x - round(x)|.max() of a floating-point matrix that niggli_reduce or
\* np.linalg.inv returns, in units of 1e-13: exact, below and not below the
\* tolerance of the assertions.
FloatErr == {0, 9, 10}

\* 1e-12, in units of 1e-13.
IntegerTol == 10

\* A sample whose rounding error is as large as the tolerance passes.
IntegralityLoose(e) == e <= IntegerTol

\* assert op_integer_err < 1e-12; assert inv_op_integer_err < 1e-12
IntegralityOK(e) == e < IntegerTol

\* Every sample sets its count to one.
TallyOverwrite(ops, op_key) ==
    [k \in DOMAIN ops \cup {op_key} |-> IF k = op_key THEN 1 ELSE ops[k]]

\* op_key in niggli_ops ? niggli_ops[op_key] += 1 : niggli_ops[op_key] = 1
Tally(ops, op_key) ==
    IF op_key \in DOMAIN ops
    THEN [ops EXCEPT ![op_key] = @ + 1]
    ELSE [k \in DOMAIN ops \cup {op_key} |->
            IF k = op_key THEN 1 ELSE ops[k]]

\* The operator applied without the transposition.
rcell_test_untransposed(m, c) == Apply(m, c)

\* rcell_test = Cell(op.T @ cell)
rcell_test(m, c) == Apply(Transpose(m), c)

\* err of lines 89-92; the smallest difference of two distinct cells of
\* the model is far above 1e-7, so err < 1e-7 iff err = 0.
RoundTripErr(m, c, rc) ==
    MaxAbsDiff(cellpar(rcell_test(m, c)), cellpar(rc))

----------------------------------------------------------------------------
\* The state machine.

NoLat == [name |-> "None", par |-> <<>>]

NoCell == <<>>

NoTally == [k \in {} |-> 0]

NoRun == [cls |-> "None", seq |-> <<>>]

NoneSeen == [c \in {} |-> NoLat]

\* The families the loops of find_all_niggli_ops, identify_lattice and
\* test reach: 3-dimensional and not excluded.
TestedNames ==
    {bravais_names[i] : i \in 1..Len(bravais_names)}
        \ ({n \in {bravais_names[i] : i \in 1..Len(bravais_names)} :
              ndim(n) < 3} \cup ExcludedNames)

\* Every lattice lattice_loop yields for the tested families.
SampledLattices ==
    UNION {{Lattice(n, latpars(n, k)) :
              k \in {m \in 0..(ProductSize(param_grids(n)) - 1) :
                        Conventional(n, latpars(n, m))}} :
           n \in TestedNames}

\* Cells that are not the conventional cell of a tested family:
\* monoclinic and triclinic cells, and centred cells in a monoclinic
\* setting.
ExtraCells ==
    { Sym(<<4, 8, 12>>, <<2, 0, 0>>),
      Sym(<<4, 8, 12>>, <<4, 0, 0>>),
      Sym(<<6, 6, 16>>, <<2, 2, -2>>),
      Sym(<<4, 6, 8>>, <<-1, -1, -1>>),
      Sym(<<4, 6, 8>>, <<2, 1, 1>>) }

\* The cells of the documented examples: cubic with a = 3 and hexagonal
\* with a = 4, c = 6 (squared lengths).
CubicExample == Lattice("CUB", <<9>>)

HexagonalExample == Lattice("HEX", <<16, 36>>)

----------------------------------------------------------------------------
\* groundstate_calculator.py

\* Names an exciting input may specify.
InputKeys == {"species_path", "kpts", "autormt"}

\* The entries of ExcitingInput.__dict__, the namespace of the class: what
\* the class statement defines, never what an instance carries.
ExcitingInputClassDict ==
    {"__module__", "__doc__", "attributes_to_dict", "__dict__", "__weakref__"}

\* An exciting input: a dict with its keys, or an ExcitingInput object
\* with the attributes set on it.
ExcitingInputs == [kind : {"dict", "ExcitingInput"}, keys : SUBSET InputKeys]

Runners == {"runner_A", "runner_B"}

Directories == {"./", "run"}

NoInput == [kind |-> "None", keys |-> {}]

\* An object none of whose attributes is set.
NoCalculator ==
    [ runner |-> "unset", exciting_input |-> NoInput, directory |-> "unset",
      template |-> "unset", profile |-> "unset", parameters |-> NoInput ]

NoKeyCall == [key |-> "none", exciting_input |-> NoInput, result |-> FALSE]

required_inputs == <<"species_path">>

check_key_present(key, exciting_input) ==
    IF exciting_input.kind = "ExcitingInput"
    THEN key \in ExcitingInputClassDict
    ELSE key \in exciting_input.keys

\* The first required input that is missing, 0 if there is none.
FirstMissing(exciting_input) ==
    LET missing == {i \in 1..Len(required_inputs) :
                      ~check_key_present(required_inputs[i], exciting_input)}
    IN  IF missing = {} THEN 0
        ELSE CHOOSE i \in missing : \A j \in missing : i <= j

----------------------------------------------------------------------------
\* siesta_lrtddft.py

\* Largest number of get_polarizability calls on the object.
MaxCalls == 4

\* x /= un.Ha: meV to micro-Hartree, Ha = 27.211 eV.
ToHa(x) == (x * 1000000) \div 27211

\* Keyword arguments of the constructor, iter_broadening in meV.
Keywords ==
    { [label |-> "siesta"],
      [label |-> "siesta", iter_broadening |-> 150],
      [label |-> "siesta", iter_broadening |-> 300] }

\* Lines 29-31.
ConvertBroadening(kw) ==
    IF "iter_broadening" \in DOMAIN kw
    THEN [kw EXCEPT !.iter_broadening = ToHa(kw.iter_broadening)]
    ELSE kw

\* get_polarizability builds a tddft_iter object on every call.
BuildsOnEveryCall(init) == TRUE

\* Line 131: if not self.initialize.
BuildsOnCall(init) == init # "True"

\* Lines 134-141: the frequency array made of omega, or the ValueError.
OmegaTypes == {"float", "list", "ndarray", "int"}

Freq(omega) ==
    CASE omega = "float" -> "array([omega])"
      [] omega = "list" -> "array([omega])"
      [] omega = "ndarray" -> "omega"
      [] OTHER -> "ValueError"

NoParams == [label |-> "unset"]

NoPolarizability == [outcome |-> "none", used |-> 0, dn |-> "unset"]

----------------------------------------------------------------------------
\* symmetrize.py

\* A 3x3 array of numbers num[k] / den.
Rational(num, den) == [num |-> num, den |-> den]

NoArray == Rational(<<0, 0, 0, 0, 0, 0, 0, 0, 0>>, 0)

MatAdd(a, b) == [k \in 1..9 |-> a[k] + b[k]]

\* The loop of lines 166-167: the sum of r.T @ scaled_stress @ r.
RECURSIVE SumOverRotations(_, _)
SumOverRotations(rot, scaled_stress) ==
    IF rot = <<>> THEN <<0, 0, 0, 0, 0, 0, 0, 0, 0>>
    ELSE MatAdd(MatMul(MatMul(Transpose(rot[1]), scaled_stress), rot[1]),
                SumOverRotations(Tail(rot), scaled_stress))

\* symmetrize_rank2(lattice, lattice_inv, stress_3_3, rot), with
\* lattice_inv = Adjugate(lattice) / Det(lattice): the numerators of the
\* result over the common denominator Det(lattice)^2 * len(rot).
symmetrize_rank2(lat, stress_3_3, rot) ==
    LET scaled_stress == MatMul(MatMul(lat, stress_3_3), Transpose(lat))
        summed == SumOverRotations(rot, scaled_stress)
    IN  Rational(MatMul(MatMul(Adjugate(lat), summed),
                        Transpose(Adjugate(lat))),
                 Det(lat) * Det(lat) * Len(rot))

\* Equality of two arrays of fractions.
SameArray(p, q) == \A k \in 1..9 : p.num[k] * q.den = q.num[k] * p.den

\* Cells of the atoms: cubic of edge 1 and 2, tetragonal.
AtomsCells ==
    { Identity, <<2, 0, 0, 0, 2, 0, 0, 0, 2>>, <<1, 0, 0, 0, 1, 0, 0, 0, 2>> }

\* Rotations prep() may return for them, in scaled coordinates: the
\* identity alone, the twofold and the fourfold axis along z.
RotationGroups ==
    { << Identity >>,
      << Identity, <<-1, 0, 0, 0, -1, 0, 0, 0, 1>> >>,
      << Identity, <<0, -1, 0, 1, 0, 0, 0, 0, 1>>,
         <<-1, 0, 0, 0, -1, 0, 0, 0, 1>>, <<0, 1, 0, -1, 0, 0, 0, 0, 1>> >> }

\* Cell arrays passed to adjust_cell.
ProposedCells ==
    { <<a, 0, e, 0, b, 0, 0, 0, 1>> : a \in 1..2, b \in 1..2, e \in 0..1 }

----------------------------------------------------------------------------
\* test_vib.py

\* Number of displacements of the vibrating system (13 for the dimer).
MaxDisp == 5

Displacements == 1..MaxDisp

\* No file in the cache directory.
NoFiles == [f \in {} |-> "data"]

VibCall(name, out, value) ==
    [ op |-> name, outcome |-> out, value |-> value,
      pre_comb |-> comb_file, pre_disp |-> DOMAIN disp_files # {} ]

----------------------------------------------------------------------------
\* web.py

\* Largest id a constructor call may start from.
MaxIds == 1004

\* len(Session.sessions) > 1000.
RegistryLimit == 1000

\* sorted(Session.sessions)[:200].
Forgotten == 200

\* self.limit = 25.
DefaultLimit == 25

\* None, and a value that is not None.
None == [kind |-> "None", items |-> <<>>]

List(items) == [kind |-> "list", items |-> items]

\* The list object the caller passed as default_columns.
TheDefaultColumns == [kind |-> "default_columns", items |-> <<>>]

\* A session as lines 20 and 29-34 leave it.
NewSession(id) ==
    [ id |-> id, columns |-> None, nrows |-> None, page |-> 0,
      limit |-> DefaultLimit, sort |-> "", query |-> "" ]

\* All the ids are forgotten once the registry is too large.
SortedFirstAll(ids, n) == ids

\* sorted(ids)[:n]: the n smallest ids.
SortedFirst(ids, n) ==
    {i \in ids : Cardinality({j \in ids : j < i}) < n}

\* The registry is never too large.
TooManyNever(n) == FALSE

\* Line 24.
TooMany(n) == n > RegistryLimit

\* The id counter stands still.
IncrementNot(n) == n

\* Line 21: Session.next_id += 1.
Increment(n) == n + 1

\* Lines 20-27: the registry after Session() with the counter at id.
Registered(reg, id) ==
    LET added == [i \in DOMAIN reg \cup {id} |->
                    IF i = id THEN NewSession(id) ELSE reg[i]]
    IN  IF TooMany(Cardinality(DOMAIN added))
        THEN LET old == SortedFirst(DOMAIN added, Forgotten)
             IN  [i \in DOMAIN added \ old |-> added[i]]
        ELSE added

\* The items of a columns attribute: of the caller's list if it is that
\* object (line 50 copies nothing), of the session's own list otherwise.
Items(columns, defaults) ==
    IF columns.kind = "default_columns" THEN defaults ELSE columns.items

\* list.remove(column): the first occurrence goes.
Remove(items, column) ==
    LET k == CHOOSE i \in 1..Len(items) :
                 /\ items[i] = column
                 /\ \A j \in 1..(i - 1) : items[j] # column
    IN  SubSeq(items, 1, k - 1) \o SubSeq(items, k + 1, Len(items))

Contains(items, column) == \E i \in 1..Len(items) : items[i] = column

\* Column names a request may sort by or toggle.
ColumnNames == {"id", "energy"}

\* sort.lstrip('-'), for the values sort takes: '', a column name, or '-'
\* and a column name.
Lstrip(sort) ==
    IF \E c \in ColumnNames : sort = "-" \o c
    THEN CHOOSE c \in ColumnNames : sort = "-" \o c
    ELSE sort

\* A second request of the column turns the order, a third turns it back.
NewSortTwoWay(current, sort) ==
    IF sort = current THEN "-" \o sort ELSE sort

\* Lines 53-58.
NewSort(current, sort) ==
    IF sort = current THEN "-" \o sort
    ELSE IF "-" \o sort = current THEN "id"
    ELSE sort

\* The argument page: None or a number.
NoPage == [kind |-> "None", value |-> 0]

Page(n) == [kind |-> "int", value |-> n]

\* Lines 52-64: sort, limit and page of the session after the branch.
Paged(session, page, limit, sort) ==
    IF sort # ""
    THEN [session EXCEPT !.sort = NewSort(session.sort, sort), !.page = 0]
    ELSE IF limit # 0
    THEN [session EXCEPT !.limit = limit, !.page = 0]
    ELSE IF page.kind # "None"
    THEN [session EXCEPT !.page = page.value]
    ELSE session

\* Lines 66-77: the session after the toggle.
Toggled(session, toggle, defaults) ==
    IF toggle = "" THEN session
    ELSE IF toggle = "reset"
    THEN [session EXCEPT !.columns = List(defaults)]
    ELSE LET items == Items(session.columns, defaults)
             changed == IF Contains(items, toggle)
                        THEN Remove(items, toggle)
                        ELSE Append(items, toggle)
             kept == IF session.columns.kind = "default_columns"
                     THEN session.columns ELSE List(changed)
         IN  IF Contains(items, toggle) /\ toggle = Lstrip(session.sort)
             THEN [session EXCEPT !.columns = kept, !.sort = "id",
                                  !.page = 0]
             ELSE [session EXCEPT !.columns = kept]

\* Lines 72 and 77 on the caller's list, when the session holds it.
ToggledDefaults(session, toggle, defaults) ==
    IF toggle \in {"", "reset"} \/ session.columns.kind # "default_columns"
    THEN defaults
    ELSE IF Contains(defaults, toggle) THEN Remove(defaults, toggle)
    ELSE Append(defaults, toggle)

\* A call of Session.get, Session() or update and what it returned.
SessCall(name, arg, before, after) ==
    [op |-> name, arg |-> arg, before |-> before, after |-> after]

NoArgs == [id |-> 0]

----------------------------------------------------------------------------
\* The state of the other modules before any of their code runs.
ExtInit ==
    /\ exc_pc = "none" /\ exc_self = NoCalculator /\ exc_raised = "none"
    /\ key_call = NoKeyCall
    /\ initialize = "unset" /\ lrtddft_params = NoParams /\ tddft = 0
    /\ built = 0 /\ td_calls = 0 /\ td_out = NoPolarizability
    /\ do_adjust_cell = "unset" /\ rotations = <<>> /\ lattice = NoCell
    /\ adj_in = NoCell /\ symmetrized_cell = NoArray /\ cell_arg = NoArray
    /\ disp_files = NoFiles /\ comb_file = FALSE /\ comb_keys = {}
    /\ vib_last = [op |-> "Vibrations", outcome |-> "ok", value |-> 0,
                   pre_comb |-> FALSE, pre_disp |-> FALSE]
    /\ next_id = 1 /\ sessions = [i \in {} |-> NewSession(i)]
    /\ default_columns = <<"id", "energy">>
    /\ sess_call = SessCall("none", NoArgs, NewSession(0), NewSession(0))

Init ==
    /\ pc = "idle" /\ caller = "none"
    /\ cell = NoCell /\ op = Identity /\ rcell = NoCell
    /\ inlat = NoLat /\ fi = 0 /\ results = <<>> /\ tried = <<>>
    /\ ret = NoLat
    /\ latcls = "None" /\ idx = 0 /\ yielded = <<>>
    /\ niggli_ops = NoTally /\ outcome = "none"
    /\ op_integer_err = -1 /\ inv_op_integer_err = -1 /\ prev = NoRun
    /\ seen = NoneSeen /\ table = niggli_op_table
    /\ gfi = 0 /\ all_niggli_ops = NoTally /\ new_table = NoTally
    /\ genout = "none"
    /\ ExtInit

----------------------------------------------------------------------------
\* cell.niggli_reduce(): one pass of the reduction loop is A1, A2, A34 and
\* A58; op is the transformation C built so far.

\* Swap a and b.
NiggliA1 ==
    /\ pc = "niggli_A1"
    /\ LET g == NiggliG(op, cell)
       IN  op' = IF g[1] > g[2] \/ (g[1] = g[2] /\ Abs(g[4]) > Abs(g[5]))
                 THEN MatMul(op, <<0, -1, 0, -1, 0, 0, 0, 0, -1>>)
                 ELSE op
    /\ pc' = "niggli_A2"
    /\ UNCHANGED <<caller, cell, rcell>>
    /\ UNCHANGED <<idVars, opsVars>>

\* Swap b and c, and start the next pass.
NiggliA2 ==
    /\ pc = "niggli_A2"
    /\ LET g == NiggliG(op, cell)
       IN  IF g[2] > g[3] \/ (g[2] = g[3] /\ Abs(g[5]) > Abs(g[6]))
           THEN /\ op' = MatMul(op, <<-1, 0, 0, 0, 0, -1, 0, -1, 0>>)
                /\ pc' = "niggli_A1"
           ELSE /\ op' = op
                /\ pc' = "niggli_A34"
    /\ UNCHANGED <<caller, cell, rcell>>
    /\ UNCHANGED <<idVars, opsVars>>

\* Make the angles all acute or all non-acute.
NiggliA34 ==
    /\ pc = "niggli_A34"
    /\ op' = ScaleColumns(op, NiggliSigns(NiggliG(op, cell)))
    /\ pc' = "niggli_A58"
    /\ UNCHANGED <<caller, cell, rcell>>
    /\ UNCHANGED <<idVars, opsVars>>

\* The step of A5..A8 that applies, if any.
NiggliStep(g) ==
    LET s5 == g[1] + g[2] + g[4] + g[5] + g[6]
    IN  IF \/ Abs(g[4]) > g[2]
           \/ (g[4] = g[2] /\ 2 * g[5] < g[6])
           \/ (g[4] = -g[2] /\ g[6] < 0)
        THEN <<1, 0, 0, 0, 1, -Sign(g[4]), 0, 0, 1>>
        ELSE IF \/ Abs(g[5]) > g[1]
                \/ (g[5] = g[1] /\ 2 * g[4] < g[6])
                \/ (g[5] = -g[1] /\ g[6] < 0)
        THEN <<1, 0, -Sign(g[5]), 0, 1, 0, 0, 0, 1>>
        ELSE IF \/ Abs(g[6]) > g[1]
                \/ (g[6] = g[1] /\ 2 * g[4] < g[5])
                \/ (g[6] = -g[1] /\ g[5] < 0)
        THEN <<1, -Sign(g[6]), 0, 0, 1, 0, 0, 0, 1>>
        ELSE IF s5 < 0 \/ (s5 = 0 /\ 2 * (g[1] + g[5]) + g[6] > 0)
        THEN <<1, 0, 1, 0, 1, 1, 0, 0, 1>>
        ELSE Identity

\* A5..A8, then the next pass; or break, and niggli_reduce returns
\* (rcell, op) with rcell = op.T @ cell.
NiggliA58 ==
    /\ pc = "niggli_A58"
    /\ \E A \in {NiggliStep(NiggliG(op, cell))} :
         IF A # Identity
         THEN /\ op' = MatMul(op, A)
              /\ pc' = "niggli_A1"
              /\ UNCHANGED rcell
         ELSE /\ op' = op
              /\ rcell' = Apply(Transpose(op), cell)
              /\ pc' = caller
    /\ UNCHANGED <<caller, cell>>
    /\ UNCHANGED <<idVars, opsVars>>

----------------------------------------------------------------------------
\* identify_lattice(cell)

\* Line 137: the call, up to the call of cell.niggli_reduce().
Identify(c, lat) ==
    /\ pc = "idle"
    /\ pc' = "niggli_A1"
    /\ caller' = "identify_lattice"
    /\ cell' = c
    /\ op' = Identity
    /\ rcell' = NoCell
    /\ inlat' = lat
    /\ fi' = 1
    /\ results' = <<>>
    /\ tried' = <<>>
    /\ ret' = NoLat
    /\ UNCHANGED opsVars

\* test(), lines 181-183: identify the cell of a sampled lattice.
TestIdentify ==
    \E lat \in SampledLattices \cup {CubicExample, HexagonalExample} :
        Identify(tocell(lat), lat)

\* identify_lattice on any other cell.
IdentifyCell == \E c \in ExtraCells : Identify(c, NoLat)

\* Lines 139-143: the family is skipped.
SkipFamily ==
    /\ pc = "identify_lattice"
    /\ fi <= Len(bravais_names)
    /\ \/ bravais_names[fi] \in ExcludedNames
       \/ ndim(bravais_names[fi]) < 3
    /\ fi' = fi + 1
    /\ UNCHANGED <<pc, caller, inlat, results, tried, ret>>
    /\ UNCHANGED <<redVars, opsVars>>

\* check_type takes the operators it tries out of the table.
TestFamilyConsumesTable ==
    /\ pc = "identify_lattice"
    /\ fi <= Len(bravais_names)
    /\ bravais_names[fi] \notin ExcludedNames
    /\ ~(ndim(bravais_names[fi]) < 3)
    /\ \E res \in {check_type(rcell, bravais_names[fi])} :
         /\ results' = res
         /\ tried' = Append(tried, bravais_names[fi])
         /\ IF ReturnIndex(res) # 0
            THEN /\ ret' = res[ReturnIndex(res)]
                 /\ pc' = "identify_done"
                 /\ fi' = fi
            ELSE /\ ret' = ret
                 /\ pc' = pc
                 /\ fi' = fi + 1
    /\ table' = [table EXCEPT ![bravais_names[fi]] = <<>>]
    /\ UNCHANGED <<caller, inlat, redVars, prev, seen, extVars>>
    /\ UNCHANGED <<loopVars, op_integer_err, inv_op_integer_err>>

\* Lines 145-150: check_type for the family and the search of its results.
TestFamily ==
    /\ pc = "identify_lattice"
    /\ fi <= Len(bravais_names)
    /\ bravais_names[fi] \notin ExcludedNames
    /\ ~(ndim(bravais_names[fi]) < 3)
    /\ \E res \in {check_type(rcell, bravais_names[fi])} :
         /\ results' = res
         /\ tried' = Append(tried, bravais_names[fi])
         /\ IF ReturnIndex(res) # 0
            THEN /\ ret' = res[ReturnIndex(res)]
                 /\ pc' = "identify_done"
                 /\ fi' = fi
            ELSE /\ ret' = ret
                 /\ pc' = pc
                 /\ fi' = fi + 1
    /\ UNCHANGED <<caller, inlat>>
    /\ UNCHANGED <<redVars, opsVars>>

\* The function ends after the loop and returns None.
FallThroughReturnsNone ==
    /\ pc = "identify_lattice"
    /\ fi > Len(bravais_names)
    /\ ret' = NoLat
    /\ pc' = "identify_done"
    /\ UNCHANGED <<caller, inlat, fi, results, tried>>
    /\ UNCHANGED <<redVars, opsVars>>

\* Line 152: the statement after the loop raises NameError.
FallThrough ==
    /\ pc = "identify_lattice"
    /\ fi > Len(bravais_names)
    /\ ret' = Raised("NameError")
    /\ pc' = "identify_done"
    /\ UNCHANGED <<caller, inlat, fi, results, tried>>
    /\ UNCHANGED <<redVars, opsVars>>

\* The caller takes the result; the next call can start.
IdentifyDone ==
    /\ pc = "identify_done"
    /\ pc' = "idle"
    /\ UNCHANGED <<caller, redVars, idVars, opsVars>>

\* Largest number of results of check_type the search is run on.
MaxResults == 3

\* Lattices check_type may return: of three families, two of one family.
SearchLattices ==
    { Lattice("CUB", <<1>>), Lattice("TET", <<1, 2>>),
      Lattice("TET", <<2, 1>>), Lattice("ORC", <<1, 2, 3>>) }

\* Every list of at most MaxResults such lattices.
ResultLists ==
    UNION {[1..n -> SearchLattices] : n \in 0..MaxResults}

\* identify_lattice after a call of check_type (line 145) that returned
\* any such list.
InitSearch ==
    /\ pc = "search"
    /\ results \in ResultLists
    /\ caller = "identify_lattice"
    /\ cell = NoCell /\ op = Identity /\ rcell = NoCell
    /\ inlat = NoLat /\ fi = 1 /\ tried = <<"CUB">>
    /\ ret = NoLat
    /\ latcls = "None" /\ idx = 0 /\ yielded = <<>>
    /\ niggli_ops = NoTally /\ outcome = "none"
    /\ op_integer_err = -1 /\ inv_op_integer_err = -1 /\ prev = NoRun
    /\ seen = NoneSeen /\ table = niggli_op_table
    /\ gfi = 0 /\ all_niggli_ops = NoTally /\ new_table = NoTally
    /\ genout = "none"
    /\ ExtInit

\* Lines 147-150: the search returns a result.
SearchReturn ==
    /\ pc = "search"
    /\ ReturnIndex(results) # 0
    /\ ret' = results[ReturnIndex(results)]
    /\ pc' = "identify_done"
    /\ UNCHANGED <<caller, inlat, fi, results, tried>>
    /\ UNCHANGED <<redVars, opsVars>>

\* Lines 147-150: the search finds nothing; the family loop goes on.
SearchContinue ==
    /\ pc = "search"
    /\ ReturnIndex(results) = 0
    /\ fi' = fi + 1
    /\ pc' = "identify_lattice"
    /\ UNCHANGED <<caller, inlat, results, tried, ret>>
    /\ UNCHANGED <<redVars, opsVars>>

\* Cells identify_lattice is called on again and again: cubic, tetragonal
\* with c = sqrt(2) a, hexagonal as a base-centred cell, and the cells of no
\* tested family.
RepeatCells ==
    { tocell(CubicExample), tocell(Lattice("BCT", <<1, 2>>)),
      tocell(Lattice("ORCC", <<1, 3, 2>>)) } \cup ExtraCells

\* identify_lattice on a cell it may have been called on before.
IdentifyRepeat == \E c \in RepeatCells : Identify(c, NoLat)

\* The caller takes the result and keeps it by cell; the next call can
\* start.
IdentifyRecord ==
    /\ pc = "identify_done"
    /\ pc' = "idle"
    /\ seen' = [c \in DOMAIN seen \cup {cell} |->
                  IF c = cell THEN ret ELSE seen[c]]
    /\ UNCHANGED <<caller, redVars, idVars, prev, table, extVars>>
    /\ UNCHANGED <<loopVars, op_integer_err, inv_op_integer_err>>

----------------------------------------------------------------------------
\* find_niggli_ops(latcls, length_grid, angle_grid)

\* Line 69, up to the first next() of lattice_loop: a new generator, an
\* empty tally and no rounding error computed yet.
FindNiggliOps ==
    \E cls \in TestedNames \cup {"TRI"} :
        /\ pc = "idle"
        /\ pc' = "lattice_loop"
        /\ caller' = "process_sample"
        /\ latcls' = cls
        /\ idx' = 0
        /\ yielded' = <<>>
        /\ niggli_ops' = NoTally
        /\ outcome' = "running"
        /\ op_integer_err' = -1
        /\ inv_op_integer_err' = -1
        /\ UNCHANGED <<redVars, idVars, otherVars>>

\* lattice_loop lines 43-56: a parameter that is neither a length nor alpha.
LoopValueError ==
    /\ pc = "lattice_loop"
    /\ ~GridsOK(latcls)
    /\ outcome' = "ValueError"
    /\ pc' = "ops_done"
    /\ UNCHANGED <<caller, latcls, idx, yielded, niggli_ops>>
    /\ UNCHANGED <<redVars, idVars, op_integer_err, inv_op_integer_err, otherVars>>

\* The first UnconventionalLattice ends the loop.
LoopSkipBreaks ==
    /\ pc = "lattice_loop"
    /\ GridsOK(latcls)
    /\ idx < ProductSize(param_grids(latcls))
    /\ ~Conventional(latcls, latpars(latcls, idx))
    /\ idx' = idx + 1
    /\ outcome' = "returned"
    /\ pc' = "ops_done"
    /\ UNCHANGED <<caller, latcls, yielded, niggli_ops>>
    /\ UNCHANGED <<redVars, idVars, op_integer_err, inv_op_integer_err, otherVars>>

\* lattice_loop lines 58-63: the constructor raises UnconventionalLattice;
\* the loop goes on with the next tuple.
LoopSkip ==
    /\ pc = "lattice_loop"
    /\ GridsOK(latcls)
    /\ idx < ProductSize(param_grids(latcls))
    /\ ~Conventional(latcls, latpars(latcls, idx))
    /\ idx' = idx + 1
    /\ UNCHANGED <<pc, caller, latcls, yielded, niggli_ops, outcome>>
    /\ UNCHANGED <<redVars, idVars, op_integer_err, inv_op_integer_err, otherVars>>

\* lattice_loop lines 58-65 yields lat; find_niggli_ops lines 72-73 take
\* its cell and call niggli_reduce.
LoopYield ==
    /\ pc = "lattice_loop"
    /\ caller = "process_sample"
    /\ GridsOK(latcls)
    /\ idx < ProductSize(param_grids(latcls))
    /\ Conventional(latcls, latpars(latcls, idx))
    /\ idx' = idx + 1
    /\ yielded' = Append(yielded, Lattice(latcls, latpars(latcls, idx)))
    /\ cell' = tocellOf(latcls, latpars(latcls, idx))
    /\ op' = Identity
    /\ rcell' = NoCell
    /\ pc' = "niggli_A1"
    /\ UNCHANGED <<caller, latcls, niggli_ops, outcome>>
    /\ UNCHANGED <<idVars, op_integer_err, inv_op_integer_err, otherVars>>

\* Lines 74-93 for the sample: the two integrality assertions, the tally
\* and the round-trip assertion.  The second rounding error is computed
\* only when the first assertion passed.
ProcessSample ==
    /\ pc = "process_sample"
    /\ \E e1 \in FloatErr, e2 \in FloatErr :
         /\ op_integer_err' = e1
         /\ \/ /\ ~IntegralityOK(e1)
               /\ outcome' = "assert op_integer_err"
               /\ pc' = "ops_done"
               /\ UNCHANGED <<inv_op_integer_err, niggli_ops>>
            \/ /\ IntegralityOK(e1)
               /\ inv_op_integer_err' = e2
               /\ ~IntegralityOK(e2)
               /\ outcome' = "assert inv_op_integer_err"
               /\ pc' = "ops_done"
               /\ UNCHANGED niggli_ops
            \/ /\ IntegralityOK(e1)
               /\ inv_op_integer_err' = e2
               /\ IntegralityOK(e2)
               /\ niggli_ops' = Tally(niggli_ops, op)
               /\ IF RoundTripErr(op, cell, rcell) = 0
                  THEN /\ pc' = "lattice_loop"
                       /\ outcome' = outcome
                  ELSE /\ pc' = "ops_done"
                       /\ outcome' = "assert err"
    /\ UNCHANGED <<caller, latcls, idx, yielded, otherVars>>
    /\ UNCHANGED <<redVars, idVars>>

\* lattice_loop is exhausted; line 95 returns the tally.
LoopEnd ==
    /\ pc = "lattice_loop"
    /\ GridsOK(latcls)
    /\ idx = ProductSize(param_grids(latcls))
    /\ outcome' = "returned"
    /\ pc' = "ops_done"
    /\ UNCHANGED <<caller, latcls, idx, yielded, niggli_ops>>
    /\ UNCHANGED <<redVars, idVars, op_integer_err, inv_op_integer_err, otherVars>>

\* The caller takes the tally or the exception; the next call can start.
OpsDone ==
    /\ pc = "ops_done"
    /\ caller = "process_sample"
    /\ pc' = "idle"
    /\ UNCHANGED <<caller, redVars, idVars, opsVars>>

----------------------------------------------------------------------------
\* lattice_loop(latcls, length_grid, angle_grid) under a loop that only
\* takes the lattices: for lat in lattice_loop(...).

\* The generator of the call before is taken up where it stopped.
LatticeLoopResumes ==
    \E cls \in TestedNames \cup {"TRI"} :
        /\ pc = "idle"
        /\ pc' = "lattice_loop"
        /\ caller' = "lattice_loop"
        /\ latcls' = cls
        /\ idx' = idx
        /\ yielded' = <<>>
        /\ outcome' = "running"
        /\ UNCHANGED <<redVars, idVars>>
        /\ UNCHANGED <<niggli_ops, op_integer_err, inv_op_integer_err, otherVars>>

\* The call makes a new generator; its body starts at the first next().
LatticeLoop ==
    \E cls \in TestedNames \cup {"TRI"} :
        /\ pc = "idle"
        /\ pc' = "lattice_loop"
        /\ caller' = "lattice_loop"
        /\ latcls' = cls
        /\ idx' = 0
        /\ yielded' = <<>>
        /\ outcome' = "running"
        /\ UNCHANGED <<redVars, idVars>>
        /\ UNCHANGED <<niggli_ops, op_integer_err, inv_op_integer_err, otherVars>>

\* Lines 58-65: lat is yielded and the loop asks for the next one.
LoopNext ==
    /\ pc = "lattice_loop"
    /\ caller = "lattice_loop"
    /\ GridsOK(latcls)
    /\ idx < ProductSize(param_grids(latcls))
    /\ Conventional(latcls, latpars(latcls, idx))
    /\ idx' = idx + 1
    /\ yielded' = Append(yielded, Lattice(latcls, latpars(latcls, idx)))
    /\ UNCHANGED <<pc, caller, latcls, niggli_ops, outcome>>
    /\ UNCHANGED <<redVars, idVars, op_integer_err, inv_op_integer_err, otherVars>>

\* The loop is over; prev keeps what a loop that ran to its end yielded.
LoopDone ==
    /\ pc = "ops_done"
    /\ caller = "lattice_loop"
    /\ pc' = "idle"
    /\ prev' = IF outcome = "returned"
               THEN [cls |-> latcls, seq |-> yielded]
               ELSE prev
    /\ UNCHANGED <<caller, redVars, idVars, seen, table, extVars>>
    /\ UNCHANGED <<loopVars, op_integer_err, inv_op_integer_err>>

----------------------------------------------------------------------------
\* generate_niggli_op_table() and find_all_niggli_ops(length_grid, angle_grid)

\* Lines 155-158 and 99: the call, up to the loop of find_all_niggli_ops.
Generate ==
    /\ pc = "idle"
    /\ pc' = "find_all_niggli_ops"
    /\ gfi' = 1
    /\ all_niggli_ops' = NoTally
    /\ new_table' = NoTally
    /\ genout' = "running"
    /\ UNCHANGED <<caller, redVars, idVars, loopVars>>
    /\ UNCHANGED <<op_integer_err, inv_op_integer_err, prev, seen, table>>
    /\ UNCHANGED <<excVars, tdVars, symVars, vibVars, webVars>>

\* Lines 100-106: the family is skipped.
AllSkip ==
    /\ pc = "find_all_niggli_ops"
    /\ gfi <= Len(bravais_names)
    /\ \/ ndim(bravais_names[gfi]) < 3
       \/ bravais_names[gfi] \in ExcludedNames
    /\ gfi' = gfi + 1
    /\ UNCHANGED <<pc, caller, redVars, idVars, loopVars>>
    /\ UNCHANGED <<op_integer_err, inv_op_integer_err, prev, seen, table>>
    /\ UNCHANGED <<excVars, tdVars, symVars, vibVars, webVars>>
    /\ UNCHANGED <<all_niggli_ops, new_table, genout>>

\* Line 109: find_niggli_ops is called for the family.
AllFind ==
    /\ pc = "find_all_niggli_ops"
    /\ gfi <= Len(bravais_names)
    /\ ~(ndim(bravais_names[gfi]) < 3)
    /\ bravais_names[gfi] \notin ExcludedNames
    /\ pc' = "lattice_loop"
    /\ caller' = "process_sample"
    /\ latcls' = bravais_names[gfi]
    /\ idx' = 0
    /\ yielded' = <<>>
    /\ niggli_ops' = NoTally
    /\ outcome' = "running"
    /\ op_integer_err' = -1
    /\ inv_op_integer_err' = -1
    /\ UNCHANGED <<redVars, idVars, otherVars>>

\* Lines 109-114: the tally returned is kept under the name of the family.
AllCollect ==
    /\ pc = "ops_done"
    /\ genout = "running"
    /\ outcome = "returned"
    /\ all_niggli_ops' =
          [n \in DOMAIN all_niggli_ops \cup {latcls} |->
              IF n = latcls THEN niggli_ops ELSE all_niggli_ops[n]]
    /\ gfi' = gfi + 1
    /\ pc' = "find_all_niggli_ops"
    /\ UNCHANGED <<caller, redVars, idVars, loopVars>>
    /\ UNCHANGED <<op_integer_err, inv_op_integer_err, prev, seen, table>>
    /\ UNCHANGED <<excVars, tdVars, symVars, vibVars, webVars>>
    /\ UNCHANGED <<new_table, genout>>

\* An assertion of find_niggli_ops failed: nothing catches it.
AllAssert ==
    /\ pc = "ops_done"
    /\ genout = "running"
    /\ outcome # "returned"
    /\ genout' = "AssertionError"
    /\ pc' = "gen_done"
    /\ UNCHANGED <<caller, redVars, idVars, loopVars>>
    /\ UNCHANGED <<op_integer_err, inv_op_integer_err, prev, seen, table>>
    /\ UNCHANGED <<excVars, tdVars, symVars, vibVars, webVars>>
    /\ UNCHANGED <<gfi, all_niggli_ops, new_table>>

\* Lines 115 and 160-162: the tallies are returned and the local
\* niggli_op_table gets the list of the operators of each family.
BuildTable ==
    /\ pc = "find_all_niggli_ops"
    /\ gfi > Len(bravais_names)
    /\ new_table' = [n \in DOMAIN all_niggli_ops |-> DOMAIN all_niggli_ops[n]]
    /\ pc' = "print_table"
    /\ UNCHANGED <<caller, redVars, idVars, loopVars>>
    /\ UNCHANGED <<op_integer_err, inv_op_integer_err, prev, seen, table>>
    /\ UNCHANGED <<excVars, tdVars, symVars, vibVars, webVars>>
    /\ UNCHANGED <<gfi, all_niggli_ops, genout>>

\* Line 164: print(pprint.pformat(niggli_op_table)).  The module imports
\* itertools, numpy and names of ase.geometry (lines 1-6) but not pprint:
\* evaluating the name raises NameError before anything is printed.
PrintTable ==
    /\ pc = "print_table"
    /\ genout' = "NameError"
    /\ pc' = "gen_done"
    /\ UNCHANGED <<caller, redVars, idVars, loopVars>>
    /\ UNCHANGED <<op_integer_err, inv_op_integer_err, prev, seen, table>>
    /\ UNCHANGED <<excVars, tdVars, symVars, vibVars, webVars>>
    /\ UNCHANGED <<gfi, all_niggli_ops, new_table>>

\* The call is over; the next one can start.
GenerateDone ==
    /\ pc = "gen_done"
    /\ pc' = "idle"
    /\ UNCHANGED <<caller, redVars, idVars, opsVars>>

----------------------------------------------------------------------------
NiggliReduce == NiggliA1 \/ NiggliA2 \/ NiggliA34 \/ NiggliA58

\* Identification: identify_lattice called on cell after cell.
Next ==
    \/ TestIdentify \/ IdentifyCell \/ NiggliReduce
    \/ SkipFamily \/ TestFamily \/ FallThrough \/ IdentifyDone

Spec == Init /\ [][Next]_vars

----------------------------------------------------------------------------
\* groundstate_calculator.py

\* The variables of niggli_classes.py.
niggliVars == <<pc, caller, redVars, idVars, loopVars, op_integer_err,
                inv_op_integer_err, prev, seen, table, genVars>>

\* ExcitingGroundState.__init__, lines 184-187: the attributes are set.
ExcitingGroundState(r, e, d) ==
    /\ exc_pc \in {"none", "raised", "constructed"}
    /\ exc_self' = [NoCalculator EXCEPT !.runner = r, !.exciting_input = e,
                       !.directory = d,
                       !.template = "ExcitingGroundStateTemplate"]
    /\ exc_raised' = "none"
    /\ exc_pc' = "check_required"
    /\ UNCHANGED <<key_call, niggliVars, tdVars, symVars, vibVars, webVars>>

\* Lines 189-191: a required input is missing.
RaiseInputError ==
    /\ exc_pc = "check_required"
    /\ FirstMissing(exc_self.exciting_input) # 0
    /\ exc_raised' = <<"InputError", "Key missing from exciting input: ",
                       required_inputs[FirstMissing(exc_self.exciting_input)]>>
    /\ exc_pc' = "raised"
    /\ UNCHANGED <<exc_self, key_call, niggliVars, tdVars, symVars, vibVars, webVars>>

\* Lines 189-197: no required input is missing; the base class is
\* initialised.
SuperInit ==
    /\ exc_pc = "check_required"
    /\ FirstMissing(exc_self.exciting_input) = 0
    /\ exc_self' = [exc_self EXCEPT !.profile = exc_self.runner,
                                    !.parameters = exc_self.exciting_input]
    /\ exc_pc' = "constructed"
    /\ UNCHANGED <<exc_raised, key_call, niggliVars, tdVars, symVars, vibVars, webVars>>

\* A call of check_key_present.
CheckKeyPresent(key, e) ==
    /\ exc_pc \in {"none", "raised", "constructed"}
    /\ key_call' = [key |-> key, exciting_input |-> e,
                    result |-> check_key_present(key, e)]
    /\ UNCHANGED <<exc_pc, exc_self, exc_raised, niggliVars, tdVars, symVars, vibVars, webVars>>

NextExciting ==
    \/ \E r \in Runners, e \in ExcitingInputs, d \in Directories :
          ExcitingGroundState(r, e, d)
    \/ RaiseInputError
    \/ SuperInit
    \/ \E key \in InputKeys, e \in ExcitingInputs : CheckKeyPresent(key, e)

SpecExciting == Init /\ [][NextExciting]_vars

----------------------------------------------------------------------------
\* siesta_lrtddft.py

\* siesta_lrtddft.__init__(initialize=init, **kw).
SiestaLrtddft(init, kw) ==
    /\ initialize = "unset"
    /\ initialize' = init
    /\ lrtddft_params' = ConvertBroadening(kw)
    /\ tddft' = IF init = "True" THEN built + 1 ELSE 0
    /\ built' = IF init = "True" THEN built + 1 ELSE built
    /\ UNCHANGED <<td_calls, td_out, niggliVars, excVars, symVars, vibVars, webVars>>

\* get_polarizability(omega, inter=inter).
GetPolarizability(omega, inter) ==
    /\ initialize # "unset"
    /\ td_calls < MaxCalls
    /\ tddft' = IF BuildsOnCall(initialize) THEN built + 1 ELSE tddft
    /\ built' = IF BuildsOnCall(initialize) THEN built + 1 ELSE built
    /\ td_out' = IF Freq(omega) = "ValueError"
                 THEN [outcome |-> "ValueError", used |-> 0, dn |-> td_out.dn]
                 ELSE [outcome |-> IF inter THEN "-comp_polariz_inter_Edir"
                                   ELSE "-comp_polariz_nonin_Edir",
                       used |-> tddft',
                       dn |-> IF inter THEN "dn" ELSE "dn0"]
    /\ td_calls' = td_calls + 1
    /\ UNCHANGED <<initialize, lrtddft_params, niggliVars, excVars, symVars, vibVars, webVars>>

NextTddft ==
    \/ \E init \in {"True", "False"}, kw \in Keywords : SiestaLrtddft(init, kw)
    \/ \E omega \in OmegaTypes, inter \in BOOLEAN :
          GetPolarizability(omega, inter)

SpecTddft == Init /\ [][NextTddft]_vars

----------------------------------------------------------------------------
\* symmetrize.py

\* FixSymmetry(atoms, adjust_cell=flag), with the rotations prep() found.
FixSymmetry(atoms_cell, rot, flag) ==
    /\ do_adjust_cell = "unset"
    /\ lattice' = atoms_cell
    /\ rotations' = rot
    /\ do_adjust_cell' = flag
    /\ UNCHANGED <<adj_in, symmetrized_cell, cell_arg>>
    /\ UNCHANGED <<niggliVars, excVars, tdVars, vibVars, webVars>>

\* adjust_cell(atoms, cell) with adjusting disabled: line 190.
AdjustCellDisabled(c) ==
    /\ do_adjust_cell = "False"
    /\ adj_in' = c
    /\ symmetrized_cell' = NoArray
    /\ cell_arg' = Rational(c, 1)
    /\ UNCHANGED <<do_adjust_cell, rotations, lattice>>
    /\ UNCHANGED <<niggliVars, excVars, tdVars, vibVars, webVars>>

\* adjust_cell(atoms, cell) with adjusting enabled: lines 192-198; the
\* last line assigns the cell array to itself.
AdjustCell(c) ==
    /\ do_adjust_cell = "True"
    /\ adj_in' = c
    /\ symmetrized_cell' = symmetrize_rank2(lattice, c, rotations)
    /\ cell_arg' = Rational(c, 1)
    /\ UNCHANGED <<do_adjust_cell, rotations, lattice>>
    /\ UNCHANGED <<niggliVars, excVars, tdVars, vibVars, webVars>>

NextSymmetry ==
    \/ \E atoms_cell \in AtomsCells, rot \in RotationGroups,
          flag \in {"True", "False"} : FixSymmetry(atoms_cell, rot, flag)
    \/ \E c \in ProposedCells : AdjustCellDisabled(c)
    \/ \E c \in ProposedCells : AdjustCell(c)

SpecSymmetry == Init /\ [][NextSymmetry]_vars

----------------------------------------------------------------------------
\* test_vib.py: test_json_manipulation, each call where the test makes it
\* and wherever else the cache is in a state the test passes through.

notVibVars == <<niggliVars, excVars, tdVars, symVars, webVars>>

\* vib.run() on split data: every displacement without a file gets one.
VibRun ==
    /\ ~comb_file
    /\ disp_files' = [f \in Displacements |->
                         IF f \in DOMAIN disp_files THEN disp_files[f]
                         ELSE "data"]
    /\ vib_last' = VibCall("run", "ok", 0)
    /\ UNCHANGED <<comb_file, comb_keys, notVibVars>>

\* vib.run() after the data has been combined.
VibRunRefused ==
    /\ comb_file
    /\ vib_last' = VibCall("run", "RuntimeError", 0)
    /\ UNCHANGED <<disp_files, comb_file, comb_keys, notVibVars>>

\* vib.combine(): builds the combined file, returns the number of entries.
VibCombine ==
    /\ ~comb_file
    /\ DOMAIN disp_files = Displacements
    /\ \A f \in Displacements : disp_files[f] = "data"
    /\ comb_keys' = DOMAIN disp_files
    /\ comb_file' = TRUE
    /\ disp_files' = NoFiles
    /\ vib_last' = VibCall("combine", "ok", Cardinality(DOMAIN disp_files))
    /\ UNCHANGED notVibVars

\* vib.read().
VibRead ==
    /\ comb_file \/ DOMAIN disp_files = Displacements
    /\ vib_last' = VibCall("read", "ok", 0)
    /\ UNCHANGED <<disp_files, comb_file, comb_keys, notVibVars>>

\* open(disp_file, 'w').write("hello"), on a file that is gone.
WriteDispFile(f) ==
    /\ comb_file
    /\ f \notin DOMAIN disp_files
    /\ disp_files' = [g \in DOMAIN disp_files \cup {f} |->
                         IF g = f THEN "hello" ELSE disp_files[g]]
    /\ vib_last' = VibCall("write", "ok", f)
    /\ UNCHANGED <<comb_file, comb_keys, notVibVars>>

\* os.remove(disp_file), on the file the test wrote.
RemoveDispFile(f) ==
    /\ f \in DOMAIN disp_files
    /\ disp_files[f] = "hello"
    /\ disp_files' = [g \in DOMAIN disp_files \ {f} |-> disp_files[g]]
    /\ vib_last' = VibCall("remove", "ok", f)
    /\ UNCHANGED <<comb_file, comb_keys, notVibVars>>

\* vib.split() on data that is already split: nothing happens.
VibSplitNothing ==
    /\ ~comb_file
    /\ vib_last' = VibCall("split", "ok", 0)
    /\ UNCHANGED <<disp_files, comb_file, comb_keys, notVibVars>>

\* vib.split() writes over the individual files that exist.
VibSplitOverwrites ==
    /\ comb_file
    /\ DOMAIN disp_files # {}
    /\ disp_files' = [f \in comb_keys |-> "data"]
    /\ comb_file' = FALSE
    /\ vib_last' = VibCall("split", "ok", 0)
    /\ UNCHANGED <<comb_keys, notVibVars>>

\* vib.split() on combined data while an individual file exists.
VibSplitRefused ==
    /\ comb_file
    /\ DOMAIN disp_files # {}
    /\ vib_last' = VibCall("split", "AssertionError", 0)
    /\ UNCHANGED <<disp_files, comb_file, comb_keys, notVibVars>>

\* vib.split() for real: the combined file is replaced by the
\* displacement files.
VibSplit ==
    /\ comb_file
    /\ DOMAIN disp_files = {}
    /\ disp_files' = [f \in comb_keys |-> "data"]
    /\ comb_file' = FALSE
    /\ vib_last' = VibCall("split", "ok", 0)
    /\ UNCHANGED <<comb_keys, notVibVars>>

NextVib ==
    \/ VibRun \/ VibRunRefused \/ VibCombine \/ VibRead
    \/ \E f \in Displacements : WriteDispFile(f)
    \/ \E f \in Displacements : RemoveDispFile(f)
    \/ VibSplitNothing \/ VibSplitRefused \/ VibSplit

SpecVib == Init /\ [][NextVib]_vars

----------------------------------------------------------------------------
\* web.py

notWebVars == <<niggliVars, excVars, tdVars, symVars, vibVars>>

\* Session(): lines 19-34.
Session ==
    /\ next_id <= MaxIds
    /\ sessions' = Registered(sessions, next_id)
    /\ next_id' = Increment(next_id)
    /\ sess_call' = SessCall("Session", NoArgs, NewSession(0),
                             NewSession(next_id))
    /\ UNCHANGED <<default_columns, notWebVars>>

\* Session.get(id) creates a session whether id is registered or not.
SessionGetCreates(id) ==
    /\ id \in DOMAIN sessions
    /\ next_id <= MaxIds
    /\ sessions' = Registered(sessions, next_id)
    /\ next_id' = Increment(next_id)
    /\ sess_call' = SessCall("get", [id |-> id], NewSession(0),
                             NewSession(next_id))
    /\ UNCHANGED <<default_columns, notWebVars>>

\* Session.get(id), lines 38-39: id is registered.
SessionGetFound(id) ==
    /\ id \in DOMAIN sessions
    /\ sess_call' = SessCall("get", [id |-> id], sessions[id], sessions[id])
    /\ UNCHANGED <<next_id, sessions, default_columns, notWebVars>>

\* Session.get(id), line 40: id is not registered.
SessionGetNew(id) ==
    /\ id \notin DOMAIN sessions
    /\ next_id <= MaxIds
    /\ sessions' = Registered(sessions, next_id)
    /\ next_id' = Increment(next_id)
    /\ sess_call' = SessCall("get", [id |-> id], NewSession(0),
                             NewSession(next_id))
    /\ UNCHANGED <<default_columns, notWebVars>>

\* session.update(page, limit, sort, toggle, default_columns) on the
\* registered session i: lines 42-77.
Update(i, page, limit, sort, toggle) ==
    /\ i \in DOMAIN sessions
    /\ \E aliased \in {IF sessions[i].columns.kind = "None"
                        THEN [sessions[i] EXCEPT !.columns = TheDefaultColumns]
                        ELSE sessions[i]} :
       \E paged \in {Paged(aliased, page, limit, sort)} :
       \E after \in {Toggled(paged, toggle, default_columns)} :
          /\ sessions' = [sessions EXCEPT ![i] = after]
          /\ default_columns' =
                ToggledDefaults(paged, toggle, default_columns)
          /\ sess_call' = SessCall("update",
                                   [id |-> i, page |-> page, limit |-> limit,
                                    sort |-> sort, toggle |-> toggle],
                                   sessions[i], after)
    /\ UNCHANGED <<next_id, notWebVars>>

\* The ids Session.get is called with: never issued, issued and possibly
\* forgotten, the next one.
RequestedIds == {0, 1, next_id}

\* Sessions are created and looked up; the first one is paged to.
NextSessions ==
    \/ Session
    \/ Update(1, Page(2), 0, "", "")
    \/ \E id \in RequestedIds : SessionGetFound(id)
    \/ \E id \in RequestedIds : SessionGetNew(id)

SpecSessions == Init /\ [][NextSessions]_vars

\* One session and the requests that update it.
NextUpdate ==
    \/ next_id = 1 /\ Session
    \/ \E i \in {1}, page \in {NoPage, Page(2)}, limit \in {0, 50},
          sort \in {""} \cup ColumnNames,
          toggle \in {"", "reset", "energy"} :
            Update(i, page, limit, sort, toggle)

SpecUpdate == Init /\ [][NextUpdate]_vars

----------------------------------------------------------------------------
\* The search of the results of check_type, on any list of results.
NextSearch == SearchReturn \/ SearchContinue

SpecSearch == InitSearch /\ [][NextSearch]_vars

\* Repetition: identify_lattice called on cells it has seen before.
NextRepeat ==
    \/ IdentifyRepeat \/ NiggliReduce
    \/ SkipFamily \/ TestFamily \/ FallThrough \/ IdentifyRecord

SpecRepeat == Init /\ [][NextRepeat]_vars

\* Operator discovery: find_niggli_ops called on family after family.
NextSampler ==
    \/ FindNiggliOps \/ LoopValueError \/ LoopSkip \/ LoopYield
    \/ NiggliReduce \/ ProcessSample \/ LoopEnd \/ OpsDone

SpecSampler == Init /\ [][NextSampler]_vars

\* Table generation: find_niggli_ops for every family in turn.
NextGenerate ==
    \/ Generate \/ AllSkip \/ AllFind
    \/ LoopSkip \/ LoopYield \/ NiggliReduce \/ ProcessSample \/ LoopEnd
    \/ AllCollect \/ AllAssert \/ BuildTable \/ PrintTable \/ GenerateDone

SpecGenerate == Init /\ [][NextGenerate]_vars

\* Enumeration: lattice_loop run to its end for family after family.  The
\* interpreter keeps running the loop.
NextLoop ==
    \/ LatticeLoop \/ LoopValueError \/ LoopSkip \/ LoopNext
    \/ LoopEnd \/ LoopDone

SpecLoop == Init /\ [][NextLoop]_vars /\ WF_vars(NextLoop)

----------------------------------------------------------------------------
\* Properties of identify_lattice (under Spec).

\* The families identify_lattice passes to check_type, in the order of
\* bravais_names.
TriedOrder ==
    SelectSeq(bravais_names,
              LAMBDA n : n \notin {"MCL", "MCLC", "TRI"} /\ ~(ndim(n) < 3))

\* C1: the families are tried in the order of bravais_names without MCL,
\* MCLC, TRI and the families of fewer than 3 dimensions; when a lattice is
\* returned it is one of the results of check_type for the last family
\* tried, check_type gave no result for any family tried before, and no
\* family after it was tried.
C1_FirstFamilyWins ==
    /\ Len(tried) <= Len(TriedOrder)
    /\ \A i \in 1..Len(tried) : tried[i] = TriedOrder[i]
    /\ (pc = "identify_done" /\ IsLattice(ret)) =>
          /\ tried # <<>>
          /\ \E j \in 1..Len(check_type(rcell, tried[Len(tried)])) :
                check_type(rcell, tried[Len(tried)])[j] = ret
          /\ \A i \in 1..(Len(tried) - 1) : check_type(rcell, tried[i]) = <<>>

\* A lattice was returned at the second family or later although a family
\* after it validates as well.
C1_Witness ==
    /\ pc = "identify_done" /\ IsLattice(ret)
    /\ Len(tried) >= 2
    /\ \E j \in (Len(tried) + 1)..Len(TriedOrder) :
          check_type(rcell, TriedOrder[j]) # <<>>

\* C2: a call ends with a lattice or with the error of the statement after
\* the loop, never with None; it ends with the error exactly when every
\* family was tried and check_type gave no result for any of them.
C2_FallThroughFails ==
    pc = "identify_done" =>
        /\ ret # NoLat
        /\ IsLattice(ret) \/ ret = Raised("NameError")
        /\ ret = Raised("NameError") <=>
              /\ tried = TriedOrder
              /\ \A i \in 1..Len(tried) : check_type(rcell, tried[i]) = <<>>

\* A call on a cell no family validates ended with the error.
C2_Witness ==
    /\ pc = "identify_done"
    /\ ret = Raised("NameError")
    /\ tried = TriedOrder

\* C3: no lattice of family TRI, MCL or MCLC is returned, none is among the
\* results of check_type, and no such family nor a family of fewer than 3
\* dimensions is the family under test.
C3_NoExcludedFamily ==
    /\ ret.name \notin {"TRI", "MCL", "MCLC"}
    /\ \A i \in 1..Len(results) : results[i].name \notin {"TRI", "MCL", "MCLC"}
    /\ \A i \in 1..Len(tried) :
          tried[i] \notin {"TRI", "MCL", "MCLC"} /\ ndim(tried[i]) = 3

\* A call in which a candidate was recognised as TRI, MCL or MCLC.
C3_Witness ==
    /\ pc = "identify_done"
    /\ \E i \in 1..Len(tried) :
          \E j \in 1..Len(CheckOutcomes(rcell, tried[i])) :
              CheckOutcomes(rcell, tried[i])[j].name \in {"TRI", "MCL", "MCLC"}

\* C4: for the cell of a lattice lattice_loop yields, identify_lattice
\* returns a lattice of the same family or of a family with fewer
\* parameters, and the cell of that lattice has the cell parameters of the
\* input cell.
C4_Idempotent ==
    (pc = "identify_done" /\ inlat # NoLat) =>
        /\ IsLattice(ret)
        /\ \/ ret.name = inlat.name
           \/ Len(parameters(ret.name)) < Len(parameters(inlat.name))
        /\ cellpar(tocell(ret)) = cellpar(cell)

\* C5: the cubic cell with a = 3 is identified as CUB with a = 3, at the
\* first family tried, by the identity operator that is the one entry of
\* the table for CUB, and the cell of the result has lengths 3, 3, 3 and
\* angles of 90 degrees.
C5_CubicIsCUB ==
    (pc = "identify_done" /\ cell = tocell(CubicExample)) =>
        /\ ret = CubicExample
        /\ tried = <<"CUB">>
        /\ results = <<CubicExample>>
        /\ niggli_op_table["CUB"] = <<Identity>>
        /\ cellpar(tocell(ret)) = <<36, 36, 36, 0, 0, 0>>

\* The call on the cubic cell has ended.
C5_Witness ==
    /\ pc = "identify_done"
    /\ inlat = CubicExample
    /\ cell = tocell(CubicExample)
    /\ IsLattice(ret)

\* C11: no call writes niggli_op_table, and a call on a cell that was
\* identified before ends with the result of the call before: the result
\* depends on the cell and the table alone.
C11_PurelyFunctional ==
    /\ table = niggli_op_table
    /\ (pc = "identify_done" /\ cell \in DOMAIN seen) => seen[cell] = ret

\* A second call on a cell ended with a lattice after calls on other cells.
C11_Witness ==
    /\ pc = "identify_done"
    /\ cell \in DOMAIN seen
    /\ Cardinality(DOMAIN seen) >= 3
    /\ IsLattice(ret)
    /\ Len(tried) >= 2

\* C13: every operator of the table, under every family key, is a tuple
\* of 9 integers of determinant +1 or -1, and the inverse of its transpose
\* that check_type applies is an integer matrix: it is the exact inverse.
C13_TableUnimodular ==
    \A n \in DOMAIN table :
        \A i \in 1..Len(table[n]) :
            /\ Len(table[n][i]) = 9
            /\ \A k \in 1..9 : table[n][i][k] \in Int
            /\ Abs(Det(table[n][i])) = 1
            /\ MatMul(Inverse(Transpose(table[n][i])), Transpose(table[n][i]))
                  = Identity

\* A call returned the lattice of the candidate of an operator that is not
\* the identity, whose candidate differs from the reduced cell.
C13_Witness ==
    /\ pc = "identify_done" /\ IsLattice(ret) /\ tried # <<>>
    /\ \E i \in 1..Len(table[tried[Len(tried)]]) :
          /\ table[tried[Len(tried)]][i] # Identity
          /\ Candidate(table[tried[Len(tried)]][i], rcell) # rcell
          /\ get_bravais_lattice_from_reduced_form(
                 Candidate(table[tried[Len(tried)]][i], rcell)) = ret

\* C14: the results of check_type for the family tried last are the kept
\* outcomes of all its operators, in table order, also those that come
\* after an operator whose candidate raised; no exception of the
\* recogniser is among the results or ends the call.
C14_FailedValidationSkipped ==
    /\ \A i \in 1..Len(results) : IsLattice(results[i])
    /\ ret.name \notin {"UnconventionalLattice", "AssertionError",
                        "RuntimeError"}
    /\ (tried # <<>> /\ pc \in {"identify_lattice", "identify_done"}) =>
          results = SelectSeq(CheckOutcomes(rcell, tried[Len(tried)]), Kept)

\* A call returned the lattice of an operator that comes after one whose
\* candidate raised.
C14_Witness ==
    /\ pc = "identify_done" /\ IsLattice(ret) /\ tried # <<>>
    /\ \E i, j \in 1..Len(CheckOutcomes(rcell, tried[Len(tried)])) :
          /\ i < j
          /\ ~IsLattice(CheckOutcomes(rcell, tried[Len(tried)])[i])
          /\ CheckOutcomes(rcell, tried[Len(tried)])[j] = ret

\* C15: a constructor that ends with InputError names species_path, was
\* given an input that does not specify it and has not initialised the
\* base class; a constructor given an input that specifies every required
\* input does not end with InputError; a constructor that returns has
\* initialised the base class with the runner as profile and the input
\* as parameters.
C15_RequiredInputChecked ==
    /\ exc_pc = "raised" =>
          /\ exc_raised[1] = "InputError"
          /\ exc_raised[3] = "species_path"
          /\ "species_path" \notin exc_self.exciting_input.keys
          /\ exc_self.profile = "unset"
          /\ exc_self.parameters = NoInput
    /\ (\A i \in 1..Len(required_inputs) :
            required_inputs[i] \in exc_self.exciting_input.keys)
          => exc_pc # "raised"
    /\ exc_pc = "constructed" =>
          /\ exc_raised = "none"
          /\ exc_self.profile = exc_self.runner
          /\ exc_self.parameters = exc_self.exciting_input

NameIndex(n) == CHOOSE i \in 1..Len(bravais_names) : bravais_names[i] = n

\* C17: on a non-empty list of results the search returns one of them:
\* none of the results has a name earlier in bravais_names, and it is the
\* first result of its name; on an empty list it returns nothing and the
\* family loop goes on.
C17_EarliestNameThenOperator ==
    /\ (pc = "search" \/ results = <<>>) => ret = NoLat
    /\ (pc # "search" /\ results # <<>>) =>
          /\ pc = "identify_done"
          /\ \E j \in 1..Len(results) :
                /\ results[j] = ret
                /\ \A k \in 1..(j - 1) : results[k].name # ret.name
          /\ \A k \in 1..Len(results) :
                NameIndex(results[k].name) >= NameIndex(ret.name)

\* The search returned the second lattice of the earliest name, which
\* neither comes first in the list nor is the only one of its name.
C17_Witness ==
    /\ pc = "identify_done"
    /\ Len(results) = 3
    /\ results[1].name = "ORC"
    /\ results[2] = ret /\ ret.name = "TET"
    /\ results[3].name = "TET" /\ results[3] # ret

\* C18: a call of check_key_present returns TRUE exactly when the key is
\* among the keys of the dict, or among the attributes the ExcitingInput
\* object carries.
C18_KeyPresentIffSpecified ==
    key_call # NoKeyCall =>
        key_call.result = (key_call.key \in key_call.exciting_input.keys)

\* C19: with initialize=True exactly one tddft_iter object is ever built,
\* the object refers to it from the constructor on and every call that
\* computes uses it; with initialize=False the object refers to None until
\* the first call, every call builds one more tddft_iter object and the
\* call computes with the one it built.
C19_TddftBuiltOnceOrPerCall ==
    /\ initialize = "True" =>
          /\ built = 1 /\ tddft = 1
          /\ td_out.outcome \notin {"none", "ValueError"} => td_out.used = 1
    /\ initialize = "False" =>
          /\ built = td_calls /\ tddft = td_calls
          /\ td_out.outcome \notin {"none", "ValueError"} =>
                td_out.used = td_calls

\* Three calls were made on an object built with initialize=True, the
\* last one a computation.
C19_Witness ==
    /\ initialize = "True" /\ td_calls = 3
    /\ td_out.outcome = "-comp_polariz_inter_Edir" /\ td_out.used = tddft

\* C20: after adjust_cell with adjusting enabled the cell array holds the
\* cell symmetrized as a rank-2 tensor under the stored rotations; with
\* adjusting disabled it holds what was passed.
C20_CellSymmetrized ==
    adj_in # NoCell =>
        /\ do_adjust_cell = "True" =>
              SameArray(cell_arg,
                        symmetrize_rank2(lattice, adj_in, rotations))
        /\ do_adjust_cell = "False" => cell_arg = Rational(adj_in, 1)

\* C21: a constructor call that finds 1000 sessions registered removes
\* exactly 200 ids from the registry, each smaller than every id that
\* stays, and the id it issued stays; a call that finds fewer removes none.
C21_OldSessionsForgotten ==
    [][ next_id' # next_id =>
          /\ next_id \in DOMAIN sessions'
          /\ IF Cardinality(DOMAIN sessions) + 1 > RegistryLimit
             THEN /\ Cardinality(DOMAIN sessions \ DOMAIN sessions')
                        = Forgotten
                  /\ \A i \in DOMAIN sessions \ DOMAIN sessions' :
                        \A j \in DOMAIN sessions' : i < j
             ELSE DOMAIN sessions \ DOMAIN sessions' = {} ]_vars

\* The constructor that issued id 1001 has returned: ids 1..200 are gone,
\* 201..1001 are registered.
C21_Witness ==
    /\ next_id = RegistryLimit + 2
    /\ DOMAIN sessions = (Forgotten + 1)..(RegistryLimit + 1)
    /\ sess_call.after.id = RegistryLimit + 1

\* C22: next_id never decreases; an id that enters the registry is the
\* current next_id, which the same call increments by one, so it is
\* greater than every id issued before, forgotten or not; next_id is
\* greater than every registered id.
C22_IdsUniqueIncreasing ==
    [][ /\ next_id' >= next_id
        /\ \A i \in DOMAIN sessions' \ DOMAIN sessions :
              i = next_id /\ next_id' = next_id + 1
        /\ next_id' # next_id =>
              /\ next_id' = next_id + 1
              /\ next_id \in DOMAIN sessions' \ DOMAIN sessions
              /\ sess_call'.after.id = next_id
        /\ \A i \in DOMAIN sessions' : i < next_id' ]_vars

\* A session was created after old sessions had been forgotten.
C22_Witness ==
    /\ next_id = RegistryLimit + 3
    /\ sess_call.after.id = RegistryLimit + 2
    /\ 1 \notin DOMAIN sessions
    /\ Cardinality(DOMAIN sessions) = RegistryLimit - Forgotten + 2

\* C23: between calls the registry holds at most 1000 sessions, and the
\* session stored under a key has that key as its id.
C23_RegistryBounded ==
    /\ Cardinality(DOMAIN sessions) <= RegistryLimit
    /\ \A i \in DOMAIN sessions : sessions[i].id = i

\* The registry is full, its last session created through Session.get.
C23_Witness ==
    /\ Cardinality(DOMAIN sessions) = RegistryLimit
    /\ sess_call.op = "get"
    /\ sess_call.after.id = RegistryLimit
    /\ sess_call.arg.id = 0

\* C24 as stated: Session.get(id) of a registered id returns the session
\* stored under it and changes neither the registry nor next_id; of an
\* unregistered id it registers and returns a session in the default
\* state whose id differs from the requested one.
C24_GetDifferentId ==
    [][ (sess_call' # sess_call /\ sess_call'.op = "get") =>
          IF sess_call'.arg.id \in DOMAIN sessions
          THEN /\ sessions' = sessions /\ next_id' = next_id
               /\ sess_call'.after = sessions[sess_call'.arg.id]
          ELSE /\ sess_call'.after = NewSession(sess_call'.after.id)
               /\ sess_call'.after.id \notin DOMAIN sessions
               /\ sess_call'.after.id \in DOMAIN sessions'
               /\ sessions'[sess_call'.after.id] = sess_call'.after
               /\ sess_call'.after.id # sess_call'.arg.id ]_vars

\* C24: Session.get(id) of a registered id returns the session stored
\* under it and changes neither the registry nor next_id; of an
\* unregistered id it registers and returns a session in the default
\* state whose id is next_id: an id not registered before, different from
\* the requested one unless next_id was requested.
C24_GetFoundOrNew ==
    [][ (sess_call' # sess_call /\ sess_call'.op = "get") =>
          IF sess_call'.arg.id \in DOMAIN sessions
          THEN /\ sessions' = sessions /\ next_id' = next_id
               /\ sess_call'.after = sessions[sess_call'.arg.id]
          ELSE /\ sess_call'.after = NewSession(next_id)
               /\ next_id \notin DOMAIN sessions
               /\ next_id \in DOMAIN sessions'
               /\ sessions'[next_id] = sess_call'.after
               /\ (sess_call'.after.id = sess_call'.arg.id)
                     <=> (sess_call'.arg.id = next_id) ]_vars

\* Session.get(1) after session 1 was paged to and then forgotten: a new
\* session in the default state.
C24_Witness ==
    /\ sess_call.op = "get" /\ sess_call.arg.id = 1
    /\ 1 \notin DOMAIN sessions
    /\ sess_call.after.id = RegistryLimit + 2
    /\ sess_call.after.page = 0
    /\ default_columns = <<"id", "energy">>
    /\ next_id = RegistryLimit + 3

C12_GenerationCompletes ==
    (pc = "gen_done" /\ genout # "AssertionError") =>
        /\ DOMAIN new_table = TestedNames
        /\ \A n \in TestedNames : new_table[n] = DOMAIN all_niggli_ops[n]
        /\ genout = "printed"

----------------------------------------------------------------------------
\* Properties of lattice_loop (under SpecLoop) and of find_niggli_ops
\* (under SpecSampler).

\* The indices below n of the parameter tuples the class accepts.
ValidBefore(cls, n) ==
    SelectSeq([k \in 1..n |-> k - 1],
              LAMBDA m : Conventional(cls, latpars(cls, m)))

\* The position of the value v in the grid of the i-th parameter.
GridPos(cls, i, v) ==
    CHOOSE k \in 1..Len(param_grids(cls)[i]) : param_grids(cls)[i][k] = v

\* p comes before q in the order of itertools.product.
ProductBefore(cls, p, q) ==
    \E i \in 1..Len(p) :
        /\ GridPos(cls, i, p[i]) < GridPos(cls, i, q[i])
        /\ \A j \in 1..(i - 1) : p[j] = q[j]

\* C6: the lattices yielded so far are those of exactly the accepted
\* tuples among the tuples consumed so far, one each and in product order;
\* a rejected tuple leaves no trace but its consumption, and the loop ends
\* only when the whole product is consumed.
C6_YieldsExactlyValid ==
    outcome \notin {"none", "ValueError"} =>
        /\ Len(yielded) = Len(ValidBefore(latcls, idx))
        /\ \A i \in 1..Len(yielded) :
              yielded[i] =
                  Lattice(latcls, latpars(latcls, ValidBefore(latcls, idx)[i]))
        /\ \A i \in 1..(Len(yielded) - 1) :
              ProductBefore(latcls, yielded[i].par, yielded[i + 1].par)
        /\ outcome = "returned" => idx = ProductSize(param_grids(latcls))

\* A loop that ended after rejected tuples both before and after a tuple
\* that was yielded.
C6_Witness ==
    /\ outcome = "returned"
    /\ Len(yielded) >= 2
    /\ \E i \in 1..Len(ValidBefore(latcls, idx)) :
          /\ ValidBefore(latcls, idx)[i] > i - 1
          /\ ValidBefore(latcls, idx)[i] < idx - 1
          /\ ~Conventional(latcls, latpars(latcls, idx - 1))

\* C7: the loop yields at most as many lattices as the product of the grids
\* has tuples, at most one per step, every call whose loop has started
\* comes to an end, and a call for the class of the call before yields the
\* sequence that call yielded.
C7_FiniteLazyRestartable ==
    /\ [](latcls # "None" =>
            /\ idx <= ProductSize(param_grids(latcls))
            /\ Len(yielded) <= idx)
    /\ [][Len(yielded') <= Len(yielded) + 1]_vars
    /\ []((pc = "ops_done" /\ outcome = "returned" /\ prev.cls = latcls) =>
            yielded = prev.seq)
    /\ (outcome = "running") ~> (outcome # "running")

\* The second of two calls for a class yielded as many lattices as the
\* product has tuples.
C7_Witness ==
    /\ pc = "ops_done" /\ outcome = "returned"
    /\ prev.cls = latcls
    /\ Len(yielded) = ProductSize(param_grids(latcls))
    /\ Len(yielded) >= 2

RECURSIVE SumCounts(_)
SumCounts(f) ==
    IF DOMAIN f = {} THEN 0
    ELSE LET k == CHOOSE x \in DOMAIN f : TRUE
         IN  f[k] + SumCounts([j \in DOMAIN f \ {k} |-> f[j]])

\* C8: at the head of the loop and at the return the counts of the tally
\* add up to the number of lattices yielded, while a sample is being
\* processed to one less; at the return that number is the number of
\* accepted tuples of the whole product.
C8_TallyCountsValid ==
    /\ (outcome = "running" /\ pc = "lattice_loop") =>
          SumCounts(niggli_ops) = Len(yielded)
    /\ (outcome = "running" /\ pc # "lattice_loop") =>
          SumCounts(niggli_ops) = Len(yielded) - 1
    /\ outcome = "returned" =>
          /\ SumCounts(niggli_ops) = Len(yielded)
          /\ SumCounts(niggli_ops) =
                Cardinality({m \in 0..(ProductSize(param_grids(latcls)) - 1) :
                                Conventional(latcls, latpars(latcls, m))})
          /\ \A k \in DOMAIN niggli_ops : niggli_ops[k] >= 1

\* A tally with two operators, one of them found twice, returned for a
\* class that rejected some tuples.
C8_Witness ==
    /\ outcome = "returned"
    /\ Cardinality(DOMAIN niggli_ops) >= 2
    /\ \E k \in DOMAIN niggli_ops : niggli_ops[k] >= 2
    /\ Len(yielded) < idx

\* C9: a rounding error of the operator or of its inverse that is not
\* below the tolerance ends the call with the assertion failure at that
\* sample, which is not tallied; so the tally is returned only when the
\* errors of every sample were below the tolerance.
C9_IntegralityAsserted ==
    /\ op_integer_err >= IntegerTol =>
          /\ outcome = "assert op_integer_err"
          /\ pc \in {"ops_done", "idle"}
    /\ (op_integer_err < IntegerTol /\ inv_op_integer_err >= IntegerTol) =>
          /\ outcome = "assert inv_op_integer_err"
          /\ pc \in {"ops_done", "idle"}
    /\ outcome \in {"assert op_integer_err", "assert inv_op_integer_err"} =>
          SumCounts(niggli_ops) = Len(yielded) - 1
    /\ outcome = "returned" =>
          op_integer_err < IntegerTol /\ inv_op_integer_err < IntegerTol

\* The inverse failed its assertion at the second sample or later.
C9_Witness ==
    /\ pc = "ops_done"
    /\ outcome = "assert inv_op_integer_err"
    /\ inv_op_integer_err >= IntegerTol
    /\ Len(yielded) >= 2

\* The main conditions of a Niggli-reduced cell.
IsNiggliReduced(c) ==
    LET g == NiggliG(Identity, c)
    IN  /\ g[1] <= g[2] /\ g[2] <= g[3]
        /\ Abs(g[4]) <= g[2] /\ Abs(g[5]) <= g[1] /\ Abs(g[6]) <= g[1]
        /\ \/ (g[4] > 0 /\ g[5] > 0 /\ g[6] > 0)
           \/ (g[4] <= 0 /\ g[5] <= 0 /\ g[6] <= 0)

====
